---- MODULE Spec2Model ----
(***************************************************************************)
(* The quorum driver of sui-core (crates/sui-core/src/quorum_driver/mod.rs) *)
(* on top of the authority aggregator                                       *)
(* (crates/sui-core/src/authority_aggregator.rs).                           *)
(*                                                                          *)
(* Time is counted in units of 200 ms, the base of the driver's backoff.    *)
(* An Option<T> is the set {} (None) or {x} (Some(x)).                       *)
(***************************************************************************)
EXTENDS Integers, Sequences, FiniteSets, TLC

(***************************************************************************)
(* Bounds of the model.                                                     *)
(***************************************************************************)
\* The retry limit the handler is built with by default (new_with_max_retry_times).
MaxRetryTimes == 2

\* The latest epoch reconfig_from_genesis may find.
MaxEpoch == 3
\* The clock may run this far on its own; past it, it runs only while a
\* retry sleeps.
MaxIdleTime == 1
\* The receivers subscribed to the effects broadcast channel: 0..MaxSubscribers.
MaxSubscribers == 1

\* TimeoutConfig::pre_quorum_timeout and post_quorum_timeout, in clock ticks.
PreQuorumTimeout == 2

PostQuorumTimeout == 1

\* quorum_once_with_timeout, in ticks of one second: the interval after which
\* the next request is started (TimeoutConfig::serial_authority_request_interval),
\* the timeout of one request, the timeout of the whole call, and the number
\* of restarts of the candidate cycle the model follows.
SerialRequestInterval == 1

PerRequestTimeout == 2

TotalTimeout == 6

MaxRestarts == 10

\* The iterations of authorty_ask_for_cert_with_retry_and_timeout followed.
MaxIterations == 3

\* The largest stake of one authority in the committees whose thresholds are
\* computed.
MaxStake == 3

\* The first backoff delay and its cap, in seconds.
BaseDelay == 1

MaxDelay == 300

(***************************************************************************)
(* Program constants.                                                       *)
(***************************************************************************)
TASK_QUEUE_SIZE == 10000
\* The backoff base, 200 ms, is the unit of time: 200 * 2^k ms is 2^k units.
BackoffBaseMs == 200

(***************************************************************************)
(* Committee: four authorities of stake 1 at epoch 0 (total 4, quorum 3,    *)
(* validity 2).                                                             *)
(***************************************************************************)
Authorities == {"a1", "a2", "a3", "a4"}

GenesisCommittee == [epoch |-> 0, voting_rights |-> [a \in Authorities |-> 1]]

RECURSIVE SumStake(_, _)
SumStake(c, S) ==
    IF S = {} THEN 0
    ELSE LET a == CHOOSE x \in S : TRUE
         IN  c.voting_rights[a] + SumStake(c, S \ {a})

total_votes(c) == SumStake(c, DOMAIN c.voting_rights)

\* 0 for an authority the committee does not know.
weight(c, a) == IF a \in DOMAIN c.voting_rights THEN c.voting_rights[a] ELSE 0

\* Variant of quorum_threshold: a majority of the stake.
quorum_threshold_majority(c) == total_votes(c) \div 2 + 1

quorum_threshold(c) == (2 * total_votes(c)) \div 3 + 1

validity_threshold(c) == total_votes(c) \div 3 + 1

\* shuffle_by_stake(preferences, restrict_to): the candidates of a fan-out,
\* as a set; `restriction` is restrict_to, and None restricts to nothing.
shuffle_by_stake(c, restriction) ==
    IF restriction = {} THEN DOMAIN c.voting_rights
    ELSE {a \in DOMAIN c.voting_rights : \E r \in restriction : a \in r}

(***************************************************************************)
(* Transactions.  T1 is the transaction callers submit; T2 and T3 are the   *)
(* transactions authorities may report as holding a lock on its input O.    *)
(* A BTreeMap iterates its digests in DigestOrder.                          *)
(***************************************************************************)
DigestOrder == <<"T1", "T2", "T3">>

Digests == {DigestOrder[i] : i \in DOMAIN DigestOrder}

Rank(d) == CHOOSE i \in DOMAIN DigestOrder : DigestOrder[i] = d

SubmittedTxs == {"T1"}

PendingTxs == {"T2", "T3"}

(***************************************************************************)
(* What one authority answers to handle_transaction, as the reducer of      *)
(* process_transaction sees it (Result<VerifiedTransactionInfoResponse>).   *)
(***************************************************************************)
OkResponse(signed, cert, effects) ==
    [is_ok |-> TRUE, signed_transaction |-> signed,
     certified_transaction |-> cert, signed_effects |-> effects,
     lock_conflict |-> {}]

ErrResponse(conflict) ==
    [is_ok |-> FALSE, signed_transaction |-> {}, certified_transaction |-> {},
     signed_effects |-> {}, lock_conflict |-> conflict]

SignedBy(epoch) == OkResponse({[epoch |-> epoch]}, {}, {})

ObjectLockConflict(d) == ErrResponse({[pending_transaction |-> d, obj_ref |-> "O"]})

OtherError == ErrResponse({})

(***************************************************************************)
(* EffectsStakeMap: stake and signatures per (epoch, effects digest).  A    *)
(* signature is modelled by the name of the authority that made it.         *)
(***************************************************************************)
EmptyEffectsStakeMap == [effects_map |-> <<>>, effects_cert |-> {}]

\* Variant of EffectsStakeMap::add: the entries are keyed by the epoch alone,
\* so that effects of different digests share one entry.
EffectsStakeMap_add_by_epoch(m, effects, name, w, c) ==
    LET key == <<effects.epoch, "">>
        old == IF key \in DOMAIN m.effects_map
               THEN m.effects_map[key]
               ELSE [stake |-> 0, signatures |-> <<>>]
        entry == [stake |-> old.stake + w,
                  signatures |-> Append(old.signatures, name)]
        map == [k \in DOMAIN m.effects_map \cup {key} |->
                   IF k = key THEN entry ELSE m.effects_map[k]]
    IN  IF entry.stake >= quorum_threshold(c)
        THEN [map |-> [effects_map |-> map,
                       effects_cert |-> {[epoch |-> effects.epoch,
                                          digest |-> effects.digest,
                                          signatures |-> entry.signatures]}],
              reached |-> TRUE]
        ELSE [map |-> [effects_map |-> map, effects_cert |-> m.effects_cert],
              reached |-> FALSE]

\* Variant of EffectsStakeMap::add: effects_cert is assigned on every call,
\* so that an entry below the quorum threshold clears it.
EffectsStakeMap_add_resetting(m, effects, name, w, c) ==
    LET key == <<effects.epoch, effects.digest>>
        old == IF key \in DOMAIN m.effects_map
               THEN m.effects_map[key]
               ELSE [stake |-> 0, signatures |-> <<>>]
        entry == [stake |-> old.stake + w,
                  signatures |-> Append(old.signatures, name)]
        map == [k \in DOMAIN m.effects_map \cup {key} |->
                   IF k = key THEN entry ELSE m.effects_map[k]]
    IN  IF entry.stake >= quorum_threshold(c)
        THEN [map |-> [effects_map |-> map,
                       effects_cert |-> {[epoch |-> effects.epoch,
                                          digest |-> effects.digest,
                                          signatures |-> entry.signatures]}],
              reached |-> TRUE]
        ELSE [map |-> [effects_map |-> map, effects_cert |-> {}],
              reached |-> FALSE]

\* Variant of EffectsStakeMap::add: the certificate is formed as soon as the
\* entry holds the validity threshold.
EffectsStakeMap_add_at_validity(m, effects, name, w, c) ==
    LET key == <<effects.epoch, effects.digest>>
        old == IF key \in DOMAIN m.effects_map
               THEN m.effects_map[key]
               ELSE [stake |-> 0, signatures |-> <<>>]
        entry == [stake |-> old.stake + w,
                  signatures |-> Append(old.signatures, name)]
        map == [k \in DOMAIN m.effects_map \cup {key} |->
                   IF k = key THEN entry ELSE m.effects_map[k]]
    IN  IF entry.stake >= validity_threshold(c)
        THEN [map |-> [effects_map |-> map,
                       effects_cert |-> {[epoch |-> effects.epoch,
                                          digest |-> effects.digest,
                                          signatures |-> entry.signatures]}],
              reached |-> TRUE]
        ELSE [map |-> [effects_map |-> map, effects_cert |-> m.effects_cert],
              reached |-> FALSE]

\* EffectsStakeMap::add; `reached` is its boolean result.
EffectsStakeMap_add(m, effects, name, w, c) ==
    LET key == <<effects.epoch, effects.digest>>
        old == IF key \in DOMAIN m.effects_map
               THEN m.effects_map[key]
               ELSE [stake |-> 0, signatures |-> <<>>]
        entry == [stake |-> old.stake + w,
                  signatures |-> Append(old.signatures, name)]
        map == [k \in DOMAIN m.effects_map \cup {key} |->
                   IF k = key THEN entry ELSE m.effects_map[k]]
    IN  IF entry.stake >= quorum_threshold(c)
        THEN [map |-> [effects_map |-> map,
                       effects_cert |-> {[epoch |-> effects.epoch,
                                          digest |-> effects.digest,
                                          signatures |-> entry.signatures]}],
              reached |-> TRUE]
        ELSE [map |-> [effects_map |-> map, effects_cert |-> m.effects_cert],
              reached |-> FALSE]

(***************************************************************************)
(* AuthorityAggregator::process_transaction.                                *)
(***************************************************************************)
ProcessTransactionState ==
    [signatures |-> <<>>, certificate |-> {}, effects_map |-> EmptyEffectsStakeMap,
     errors |-> <<>>, good_stake |-> 0, bad_stake |-> 0,
     conflicting_tx_digests |-> <<>>]

\* Variant of process_transaction_error: the stake of a record is set to the
\* weight of the last reporter instead of being added to.
process_transaction_error_last_weight(state, name, w, result) ==
    LET conflicts == state.conflicting_tx_digests
        recorded ==
            IF result.lock_conflict = {} THEN conflicts
            ELSE LET err == CHOOSE e \in result.lock_conflict : TRUE
                     d == err.pending_transaction
                     old == IF d \in DOMAIN conflicts THEN conflicts[d]
                            ELSE [lock_records |-> <<>>, total_stake |-> 0]
                     new == [lock_records |->
                                 Append(old.lock_records, <<name, err.obj_ref>>),
                             total_stake |-> w]
                 IN  [k \in DOMAIN conflicts \cup {d} |->
                         IF k = d THEN new ELSE conflicts[k]]
    IN  [state EXCEPT !.conflicting_tx_digests = recorded,
                      !.errors = Append(@, IF result.lock_conflict = {}
                                           THEN "Error" ELSE "ObjectLockConflict"),
                      !.bad_stake = @ + w]

\* Variant of process_transaction_error: an ObjectLockConflict is recorded
\* but is not counted as bad stake.
process_transaction_error_uncounted_conflict(state, name, w, result) ==
    LET conflicts == state.conflicting_tx_digests
        recorded ==
            IF result.lock_conflict = {} THEN conflicts
            ELSE LET err == CHOOSE e \in result.lock_conflict : TRUE
                     d == err.pending_transaction
                     old == IF d \in DOMAIN conflicts THEN conflicts[d]
                            ELSE [lock_records |-> <<>>, total_stake |-> 0]
                     new == [lock_records |->
                                 Append(old.lock_records, <<name, err.obj_ref>>),
                             total_stake |-> old.total_stake + w]
                 IN  [k \in DOMAIN conflicts \cup {d} |->
                         IF k = d THEN new ELSE conflicts[k]]
    IN  [state EXCEPT !.conflicting_tx_digests = recorded,
                      !.errors = Append(@, IF result.lock_conflict = {}
                                           THEN "Error" ELSE "ObjectLockConflict"),
                      !.bad_stake = IF result.lock_conflict = {} THEN @ + w ELSE @]

\* The Err(err) arm: an ObjectLockConflict is recorded under the digest of the
\* pending transaction it names; every error counts as bad stake.
process_transaction_error(state, name, w, result) ==
    LET conflicts == state.conflicting_tx_digests
        recorded ==
            IF result.lock_conflict = {} THEN conflicts
            ELSE LET err == CHOOSE e \in result.lock_conflict : TRUE
                     d == err.pending_transaction
                     old == IF d \in DOMAIN conflicts THEN conflicts[d]
                            ELSE [lock_records |-> <<>>, total_stake |-> 0]
                     new == [lock_records |->
                                 Append(old.lock_records, <<name, err.obj_ref>>),
                             total_stake |-> old.total_stake + w]
                 IN  [k \in DOMAIN conflicts \cup {d} |->
                         IF k = d THEN new ELSE conflicts[k]]
    IN  [state EXCEPT !.conflicting_tx_digests = recorded,
                      !.errors = Append(@, IF result.lock_conflict = {}
                                           THEN "Error" ELSE "ObjectLockConflict"),
                      !.bad_stake = @ + w]

\* Variant of process_transaction_match: the certificate is made only when
\* good_stake exceeds the threshold.
process_transaction_match_above_threshold(c, tx, state, name, w, result) ==
    LET cert == result.certified_transaction
        signed == result.signed_transaction
        effects == result.signed_effects
    IN  IF ~result.is_ok THEN process_transaction_error(state, name, w, result)
        ELSE IF cert # {} /\ (\A x \in cert : x.epoch = c.epoch)
        THEN [state EXCEPT !.certificate = cert]
        ELSE IF effects # {} /\ cert # {}
        THEN LET added == EffectsStakeMap_add(state.effects_map,
                              CHOOSE e \in effects : TRUE, name, w, c)
             IN  [state EXCEPT !.effects_map = added.map,
                               !.certificate = IF added.reached THEN cert ELSE @]
        ELSE IF signed # {} /\ (\A x \in signed : x.epoch = c.epoch)
        THEN LET sigs == Append(state.signatures, name)
                 good == state.good_stake + w
             IN  [state EXCEPT !.signatures = sigs,
                               !.good_stake = good,
                               !.certificate =
                                   IF good > quorum_threshold(c)
                                   THEN {[digest |-> tx, epoch |-> c.epoch,
                                          signatures |-> sigs]}
                                   ELSE @]
        ELSE [state EXCEPT
                 !.errors = Append(@, "UnexpectedResultFromValidatorHandleTransaction"),
                 !.bad_stake = @ + w]

\* Variant of process_transaction_match: a returned certificate is taken
\* whatever its epoch.
process_transaction_match_any_epoch(c, tx, state, name, w, result) ==
    LET cert == result.certified_transaction
        signed == result.signed_transaction
        effects == result.signed_effects
    IN  IF ~result.is_ok THEN process_transaction_error(state, name, w, result)
        ELSE IF cert # {}
        THEN [state EXCEPT !.certificate = cert]
        ELSE IF signed # {} /\ (\A x \in signed : x.epoch = c.epoch)
        THEN LET sigs == Append(state.signatures, name)
                 good == state.good_stake + w
             IN  [state EXCEPT !.signatures = sigs,
                               !.good_stake = good,
                               !.certificate =
                                   IF good >= quorum_threshold(c)
                                   THEN {[digest |-> tx, epoch |-> c.epoch,
                                          signatures |-> sigs]}
                                   ELSE @]
        ELSE [state EXCEPT
                 !.errors = Append(@, "UnexpectedResultFromValidatorHandleTransaction"),
                 !.bad_stake = @ + w]

\* The match of the reduce closure, arm by arm and in the order of the source.
process_transaction_match(c, tx, state, name, w, result) ==
    LET cert == result.certified_transaction
        signed == result.signed_transaction
        effects == result.signed_effects
    IN  IF ~result.is_ok THEN process_transaction_error(state, name, w, result)
        ELSE IF cert # {} /\ (\A x \in cert : x.epoch = c.epoch)
        THEN [state EXCEPT !.certificate = cert]
        ELSE IF effects # {} /\ cert # {}
        THEN LET added == EffectsStakeMap_add(state.effects_map,
                              CHOOSE e \in effects : TRUE, name, w, c)
             IN  [state EXCEPT !.effects_map = added.map,
                               !.certificate = IF added.reached THEN cert ELSE @]
        ELSE IF signed # {} /\ (\A x \in signed : x.epoch = c.epoch)
        THEN LET sigs == Append(state.signatures, name)
                 good == state.good_stake + w
             IN  [state EXCEPT !.signatures = sigs,
                               !.good_stake = good,
                               !.certificate =
                                   IF good >= quorum_threshold(c)
                                   THEN {[digest |-> tx, epoch |-> c.epoch,
                                          signatures |-> sigs]}
                                   ELSE @]
        ELSE [state EXCEPT
                 !.errors = Append(@, "UnexpectedResultFromValidatorHandleTransaction"),
                 !.bad_stake = @ + w]

\* Variant of process_transaction_reduce: the fold stops when bad_stake
\* reaches the validity threshold.
process_transaction_reduce_at_validity(c, tx, state, name, w, result) ==
    LET s == process_transaction_match(c, tx, state, name, w, result)
    IN  IF s.bad_stake >= validity_threshold(c) THEN [output |-> "End", state |-> s]
        ELSE IF s.certificate # {} THEN [output |-> "End", state |-> s]
        ELSE [output |-> "Continue", state |-> s]

\* The reduce closure of process_transaction.
process_transaction_reduce(c, tx, state, name, w, result) ==
    LET s == process_transaction_match(c, tx, state, name, w, result)
    IN  IF s.bad_stake > validity_threshold(c) THEN [output |-> "End", state |-> s]
        ELSE IF s.certificate # {} THEN [output |-> "End", state |-> s]
        ELSE [output |-> "Continue", state |-> s]

\* What process_transaction makes of the state the engine returns.
process_transaction_result(state) ==
    IF state.certificate # {}
    THEN [is_ok |-> TRUE, certificate |-> state.certificate, good_stake |-> 0,
          conflicting_tx_digests |-> <<>>]
    ELSE [is_ok |-> FALSE, certificate |-> {}, good_stake |-> state.good_stake,
          conflicting_tx_digests |-> state.conflicting_tx_digests]

(***************************************************************************)
(* AuthorityAggregator::process_certificate.                                *)
(***************************************************************************)
ProcessCertificateState ==
    [effects_map |-> EmptyEffectsStakeMap, bad_stake |-> 0, errors |-> <<>>]

\* Variant of the reduce closure of process_certificate: the first error
\* ends the fold.
process_certificate_reduce_at_first_error(c, tx, state, name, w, result) ==
    IF result.is_ok
    THEN LET added == EffectsStakeMap_add(state.effects_map,
                          CHOOSE e \in result.signed_effects : TRUE, name, w, c)
             s == [state EXCEPT !.effects_map = added.map]
         IN  [output |-> IF added.reached THEN "End" ELSE "Continue", state |-> s]
    ELSE LET s == [state EXCEPT !.errors = Append(@, "Error"), !.bad_stake = @ + w]
         IN  [output |-> IF s.bad_stake > 0 THEN "End" ELSE "Continue",
              state |-> s]

\* The reduce closure of process_certificate.
process_certificate_reduce(c, tx, state, name, w, result) ==
    IF result.is_ok
    THEN LET added == EffectsStakeMap_add(state.effects_map,
                          CHOOSE e \in result.signed_effects : TRUE, name, w, c)
             s == [state EXCEPT !.effects_map = added.map]
         IN  [output |-> IF added.reached THEN "End" ELSE "Continue", state |-> s]
    ELSE LET s == [state EXCEPT !.errors = Append(@, "Error"), !.bad_stake = @ + w]
         IN  [output |-> IF s.bad_stake > validity_threshold(c)
                         THEN "End" ELSE "Continue",
              state |-> s]

\* What process_certificate makes of the state the engine returns.
process_certificate_result(state) ==
    [is_ok |-> state.effects_map.effects_cert # {},
     effects_cert |-> state.effects_map.effects_cert,
     error |-> IF state.effects_map.effects_cert # {} THEN {}
               ELSE {"QuorumFailedToExecuteCertificate"}]

(***************************************************************************)
(* get_object_by_id, the caller whose reducer shortens the timeout and can  *)
(* itself return an error.                                                  *)
(***************************************************************************)
GetObjectByIDRequestState == [good_weight |-> 0, bad_weight |-> 0, responses |-> <<>>]

\* An authority's answer to handle_object_info_request.
ObjectInfoResponse == [is_ok |-> TRUE, object |-> "O"]

\* The per-authority errors among the responses collected.
RECURSIVE ErrorsOf(_)
ErrorsOf(rs) ==
    IF rs = <<>> THEN <<>>
    ELSE IF Head(rs).result.is_ok THEN ErrorsOf(Tail(rs))
    ELSE <<Head(rs).name>> \o ErrorsOf(Tail(rs))

\* The reduce closure of get_object_by_id.
get_object_by_id_reduce(c, tx, state, name, w, result) ==
    LET s1 == [state EXCEPT !.good_weight = @ + w,
                            !.responses = Append(@, [name |-> name, result |-> result])]
        s  == IF result.is_ok THEN s1 ELSE [s1 EXCEPT !.bad_weight = @ + w]
    IN  IF ~result.is_ok /\ s.bad_weight > validity_threshold(c)
        THEN [output |-> "Err",
              state |-> [error |-> "TooManyIncorrectAuthorities",
                         errors |-> ErrorsOf(s.responses)]]
        ELSE IF s.good_weight < quorum_threshold(c)
        THEN [output |-> "Continue", state |-> s]
        ELSE [output |-> "ContinueWithTimeout", state |-> s,
              duration |-> PostQuorumTimeout]

(***************************************************************************)
(* quorum_map_then_reduce_with_timeout_and_prefs: one request per authority *)
(* of the committee, the answers folded one at a time in the order they     *)
(* arrive.  The operator is the set of states the call can return: after    *)
(* any number of answers the timeout may elapse, an End stops the fold, and *)
(* the stream ends when every authority has answered.                       *)
(***************************************************************************)
\* reduce_result: the closure the caller passed, named by the call.
reduce_result(call, c, tx, state, name, w, result) ==
    IF call = "process_transaction"
    THEN process_transaction_reduce(c, tx, state, name, w, result)
    ELSE IF call = "process_certificate"
    THEN process_certificate_reduce(c, tx, state, name, w, result)
    ELSE get_object_by_id_reduce(c, tx, state, name, w, result)

RECURSIVE quorum_map_then_reduce(_, _, _, _, _, _)
quorum_map_then_reduce(call, c, tx, state, waiting, Answers) ==
    {state} \cup
    UNION {LET r == reduce_result(call, c, tx, state, a, weight(c, a), result)
           IN  IF r.output = "End" THEN {r.state}
               ELSE quorum_map_then_reduce(call, c, tx, r.state,
                                           waiting \ {a}, Answers)
           : <<a, result>> \in waiting \X Answers}

\* The answers of one authority to handle_transaction the model draws from.
TransactionAnswers ==
    {SignedBy(0), OtherError} \cup {ObjectLockConflict(d) : d \in PendingTxs}

\* The answers of one authority to handle_certificate the model draws from.
CertificateAnswers ==
    {OkResponse({}, {}, {[epoch |-> 0, digest |-> "D1"]}), OtherError}

\* The committees a driver may hold a snapshot of.
Committees == {GenesisCommittee}

process_transaction(c, tx) ==
    {process_transaction_result(s) :
        s \in quorum_map_then_reduce("process_transaction", c, tx,
                  ProcessTransactionState, shuffle_by_stake(c, {}),
                  TransactionAnswers)}

process_certificate(c, cert) ==
    {process_certificate_result(s) :
        s \in quorum_map_then_reduce("process_certificate", c, cert.digest,
                  ProcessCertificateState, shuffle_by_stake(c, {}),
                  CertificateAnswers)}

\* The results of the two aggregation calls, per committee and transaction.
ProcessTransactionResults ==
    [c \in Committees, tx \in Digests |-> process_transaction(c, tx)]

ProcessCertificateResults ==
    [c \in Committees, tx \in Digests |-> process_certificate(c, [digest |-> tx])]

(***************************************************************************)
(* The quorum driver.                                                       *)
(***************************************************************************)
VARIABLES
    now,              \* the clock (Instant::now()), in units of 200 ms
    validators,       \* ArcSwap<AuthorityAggregator>: the committee snapshot
    loaded,           \* validators.load(): the snapshot a call in progress holds
    bookkeeping,      \* enqueue_again_maybe's arithmetic at machine width
    reconfig,         \* reconfig_from_genesis: the aggregator it walks with
    attempt,          \* one processing attempt followed load by load
    max_retry_times,  \* QuorumDriver.max_retry_times
    ask,              \* authorty_ask_for_cert_with_retry_and_timeout: where the call stands
    task_queue,       \* the mpsc channel of QuorumDriverTask
    running,          \* the spawned process_task calls, each at an await
    sleeping,         \* the spawned enqueue_again_maybe calls in sleep_until
    notifier,         \* NotifyRead: digest -> registrations still pending
    tickets,          \* per submission: the digest and what its waiter received
    effects_channel,  \* what was sent on effects_subscribe_sender
    requests,         \* history: requests sent on behalf of a conflicting tx
    history,          \* history: per submission, what the driver did for it
    aggregation,      \* the aggregation call in progress, "idle" when none
    responses,        \* FuturesUnordered: authorities that have not answered
    accumulated_state,\* the state the fold of the call has reached
    returned,         \* None, or the state the call returned
    folded,           \* history: the reduce_result calls made, in order
    current_timeout,  \* the timeout of the wait for the next response, in ticks
    waited,           \* ticks spent in the current wait for a response
    elapsed,          \* history: ticks since the aggregation call started
    once,             \* quorum_once_with_timeout: where the call stands
    restrict_to,      \* its argument restrict_to, None as {} and Some(s) as {s}
    timeout_total,    \* its argument timeout_total, None as {} and Some(t) as {t}
    behaviour,        \* per candidate: ticks a request takes, and its outcome
    authorities_shuffled, \* the candidates of this cycle not yet started
    futures,          \* the requests in flight, each with its age in ticks
    interval_age,     \* ticks since schedule_next was pushed
    delay,            \* the backoff delay of the next sleep, in seconds
    authority_errors, \* the latest error recorded per authority
    clock,            \* ticks (seconds) since the call started
    once_result,      \* None, or what the call returned
    requested,        \* history: the authorities a request was started to
    abandoned,        \* history: requests dropped in flight at a break
    slept,            \* history: the delays slept, in order
    latest_failure    \* history: the latest failure seen of each authority

\* The variables of the driver, and those of one aggregation call.
driver_vars == <<now, validators, loaded, bookkeeping, reconfig, attempt, max_retry_times, ask, task_queue, running, sleeping, notifier,
                 tickets, effects_channel, requests, history>>

timing_vars == <<current_timeout, waited, elapsed>>

once_vars == <<once, restrict_to, timeout_total, behaviour, authorities_shuffled,
               futures, interval_age, delay, authority_errors, clock, once_result,
               requested, abandoned, slept, latest_failure>>

aggregation_vars == <<aggregation, responses, accumulated_state, returned, folded,
                      timing_vars, once_vars>>

vars == <<driver_vars, aggregation_vars>>

\* No quorum_once_with_timeout call is in progress.
OnceIdle ==
    /\ once = "idle"
    /\ restrict_to = {}
    /\ timeout_total = {}
    /\ behaviour = <<>>
    /\ authorities_shuffled = <<>>
    /\ futures = <<>>
    /\ interval_age = 0
    /\ delay = BaseDelay
    /\ authority_errors = <<>>
    /\ latest_failure = <<>>
    /\ clock = 0
    /\ once_result = {}
    /\ requested = {}
    /\ abandoned = {}
    /\ slept = <<>>

\* A QuorumDriverTask; `waiter` names the submission it belongs to (history).
QuorumDriverTask(transaction, tx_cert, retry_times, next_retry_after, waiter) ==
    [transaction |-> transaction, tx_cert |-> tx_cert, retry_times |-> retry_times,
     next_retry_after |-> next_retry_after, waiter |-> waiter]

\* A process_task call suspended at the await named by pc.
ProcessTask(task, pc, tx_cert, conflicting_txes, retried, reporters) ==
    [task |-> task, pc |-> pc, tx_cert |-> tx_cert,
     conflicting_txes |-> conflicting_txes, retried |-> retried,
     reporters |-> reporters]

\* What the history keeps per submission.
NoHistory ==
    [attempts |-> 0,          \* process_task calls spawned
     started_at |-> 0,        \* when the last of them was spawned
     certifications |-> 0,    \* process_transaction calls made for it
     obtained |-> {},         \* the certificates those calls returned
     enqueued |-> 0,          \* re-enqueues by enqueue_again_maybe
     failures |-> 0,          \* aggregation calls for it that failed
     retryable |-> 0,         \* those that went to enqueue_again_maybe
     failed_at |-> 0,         \* when the last of these failed
     last_failure |-> "",     \* "certification" or "execution"
     last_result |-> {},      \* what the last failed certification returned
     attempted |-> {},        \* digests attempt_one_conflicting_transaction took
     fetched |-> {},          \* what the fetch of the conflicting tx found
     executions |-> 0,        \* executions started for a conflicting tx
     success |-> {}]          \* whether that execution reached certified effects

\* QuorumDriverResult values.
OkResult(tx_cert, effects_cert) ==
    [is_ok |-> TRUE, tx_cert |-> tx_cert, effects_cert |-> effects_cert,
     error |-> "", conflicting_txes |-> <<>>, retried_tx |-> {},
     retried_tx_success |-> {}, total_attempts |-> 0]

ObjectsDoubleUsed(conflicting_txes, retried_tx, retried_tx_success) ==
    [is_ok |-> FALSE, tx_cert |-> {}, effects_cert |-> {},
     error |-> "ObjectsDoubleUsed", conflicting_txes |-> conflicting_txes,
     retried_tx |-> retried_tx, retried_tx_success |-> retried_tx_success,
     total_attempts |-> 0]

FailedAfterMaximumAttempts(total_attempts) ==
    [is_ok |-> FALSE, tx_cert |-> {}, effects_cert |-> {},
     error |-> "FailedAfterMaximumAttempts", conflicting_txes |-> <<>>,
     retried_tx |-> {}, retried_tx_success |-> {},
     total_attempts |-> total_attempts]

\* SuiError values process_transaction of the driver returns.
QuorumFailedToProcessTransaction(good_stake, conflicting_tx_digests) ==
    [type |-> "QuorumFailedToProcessTransaction", good_stake |-> good_stake,
     conflicting_txes |-> conflicting_tx_digests, retried_tx_digest |-> {},
     retried_tx_success |-> {}]

QuorumFailedToProcessTransactionWithConflictingTransactions(conflicting_txes, retried_tx_digest, retried_tx_success) ==
    [type |-> "QuorumFailedToProcessTransactionWithConflictingTransactions",
     good_stake |-> 0, conflicting_txes |-> conflicting_txes,
     retried_tx_digest |-> retried_tx_digest,
     retried_tx_success |-> retried_tx_success]

Init ==
    /\ now = 0
    /\ validators = GenesisCommittee
    /\ loaded = {}
    /\ bookkeeping = <<>>
    /\ reconfig = <<>>
    /\ attempt = <<>>
    /\ max_retry_times = MaxRetryTimes
    /\ ask = <<>>
    /\ task_queue = <<>>
    /\ running = {}
    /\ sleeping = {}
    /\ notifier = [d \in Digests |-> {}]
    /\ tickets = <<>>
    /\ effects_channel = <<>>
    /\ requests = {}
    /\ history = <<>>
    /\ aggregation = "idle"
    /\ responses = {}
    /\ accumulated_state = <<>>
    /\ returned = {}
    /\ folded = <<>>
    /\ current_timeout = PreQuorumTimeout
    /\ waited = 0
    /\ elapsed = 0
    /\ OnceIdle

(***************************************************************************)
(* Pure parts of the driver.                                                *)
(***************************************************************************)
RECURSIVE Pow2(_)
Pow2(k) == IF k = 0 THEN 1 ELSE 2 * Pow2(k - 1)

\* Variant of next_retry_after: a fixed delay instead of a doubling one.
next_retry_after_fixed(instant, old_retry_times) ==
    instant + BackoffBaseMs \div BackoffBaseMs

\* Instant::now() + Duration::from_millis(200 * 2^old_retry_times), in units
\* of BackoffBaseMs.
next_retry_after(instant, old_retry_times) ==
    instant + (BackoffBaseMs * Pow2(old_retry_times)) \div BackoffBaseMs

\* Variant of sorted_conflicting_tx_digests: the comparison of sort_by taken
\* the other way round, lowest stake first.
sorted_conflicting_tx_digests_ascending(conflicting) ==
    LET D == DOMAIN conflicting
        n == Cardinality(D)
    IN  CHOOSE s \in [1..n -> D] :
            /\ \A i, j \in 1..n : i < j =>
                 \/ conflicting[s[i]].total_stake < conflicting[s[j]].total_stake
                 \/ /\ conflicting[s[i]].total_stake = conflicting[s[j]].total_stake
                    /\ Rank(s[i]) < Rank(s[j])

\* The digests of the map in BTreeMap order, then sort_by descending stake
\* (a stable sort): ties keep the order of the digests.
sorted_conflicting_tx_digests(conflicting) ==
    LET D == DOMAIN conflicting
        n == Cardinality(D)
    IN  CHOOSE s \in [1..n -> D] :
            /\ \A i, j \in 1..n : i < j =>
                 \/ conflicting[s[i]].total_stake > conflicting[s[j]].total_stake
                 \/ /\ conflicting[s[i]].total_stake = conflicting[s[j]].total_stake
                    /\ Rank(s[i]) < Rank(s[j])

\* Variant of attempt_conflicting_transactions_maybe: the two tests of
\* good_stake left out, so that only the candidate's stake decides.
attempt_conflicting_transactions_maybe_ignoring_good_stake(c, good_stake, conflicting) ==
    LET validity == validity_threshold(c)
    IN  IF DOMAIN conflicting = {} THEN {}
        ELSE LET tx_digest == CHOOSE d \in DOMAIN conflicting :
                     \A e \in DOMAIN conflicting :
                         conflicting[e].total_stake <= conflicting[d].total_stake
                 records == conflicting[tx_digest].lock_records
             IN  IF conflicting[tx_digest].total_stake < validity THEN {}
                 ELSE {[tx_digest |-> tx_digest,
                        validators |-> {records[i][1] : i \in DOMAIN records}]}

\* Variant of attempt_conflicting_transactions_maybe: only equivocation keeps
\* it from retrying the best candidate.
attempt_conflicting_transactions_maybe_unless_equivocation(c, good_stake, conflicting) ==
    LET validity == validity_threshold(c)
    IN  IF DOMAIN conflicting = {} THEN {}
        ELSE LET tx_digest == sorted_conflicting_tx_digests(conflicting)[1]
                 total_stake == conflicting[tx_digest].total_stake
                 records == conflicting[tx_digest].lock_records
             IN  IF good_stake >= validity /\ total_stake >= validity THEN {}
                 ELSE {[tx_digest |-> tx_digest,
                        validators |-> {records[i][1] : i \in DOMAIN records}]}

\* attempt_conflicting_transactions_maybe up to its only await: None when no
\* conflicting transaction is to be retried, else the digest to retry and the
\* authorities that reported it.
attempt_conflicting_transactions_maybe(c, good_stake, conflicting) ==
    LET validity == validity_threshold(c)
    IN  IF DOMAIN conflicting = {} THEN {}
        ELSE LET tx_digest == sorted_conflicting_tx_digests(conflicting)[1]
                 total_stake == conflicting[tx_digest].total_stake
                 records == conflicting[tx_digest].lock_records
             IN  IF good_stake >= validity /\ total_stake >= validity THEN {}
                 ELSE IF good_stake >= validity THEN {}
                 ELSE IF total_stake < validity THEN {}
                 ELSE {[tx_digest |-> tx_digest,
                        validators |-> {records[i][1] : i \in DOMAIN records}]}

\* Variant of convert_to_quorum_driver_error_if_nonretryable: every error is
\* taken as non-retryable.
convert_every_error_nonretryable(err) ==
    {ObjectsDoubleUsed(err.conflicting_txes, err.retried_tx_digest,
                       err.retried_tx_success)}

\* Variant of convert_to_quorum_driver_error_if_nonretryable: the retried
\* transaction and its outcome are not copied into the driver's error.
convert_dropping_retried_tx(err) ==
    IF err.type = "QuorumFailedToProcessTransactionWithConflictingTransactions"
    THEN {ObjectsDoubleUsed(err.conflicting_txes, {}, {})}
    ELSE {}

\* None for a retryable error.
convert_to_quorum_driver_error_if_nonretryable(err) ==
    IF err.type = "QuorumFailedToProcessTransactionWithConflictingTransactions"
    THEN {ObjectsDoubleUsed(err.conflicting_txes, err.retried_tx_digest,
                            err.retried_tx_success)}
    ELSE {}

(***************************************************************************)
(* Steps shared by the actions.                                             *)
(***************************************************************************)
\* NotifyRead::notify: every registration pending for the digest receives the
\* value and is removed; with none pending the value is dropped.
notify(tx_digest, response) ==
    /\ tickets' = [w \in DOMAIN tickets |->
                     IF w \in notifier[tx_digest]
                     THEN [tickets[w] EXCEPT !.received = Append(@, response)]
                     ELSE tickets[w]]
    /\ notifier' = [notifier EXCEPT ![tx_digest] = {}]

\* Variant of enqueue_again_maybe: nobody is notified when the retries are
\* used up.
enqueue_again_maybe_silent(task, tx_cert) ==
    IF task.retry_times >= max_retry_times
    THEN UNCHANGED <<notifier, tickets, sleeping>>
    ELSE /\ sleeping' = sleeping \cup
                {QuorumDriverTask(task.transaction, tx_cert, task.retry_times + 1,
                                  next_retry_after(now, task.retry_times),
                                  task.waiter)}
         /\ UNCHANGED <<notifier, tickets>>

\* Variant of enqueue_again_maybe: > in place of >=.
enqueue_again_maybe_off_by_one(task, tx_cert) ==
    IF task.retry_times > max_retry_times
    THEN /\ notify(task.transaction,
                   FailedAfterMaximumAttempts(task.retry_times + 1))
         /\ UNCHANGED sleeping
    ELSE /\ sleeping' = sleeping \cup
                {QuorumDriverTask(task.transaction, tx_cert, task.retry_times + 1,
                                  next_retry_after(now, task.retry_times),
                                  task.waiter)}
         /\ UNCHANGED <<notifier, tickets>>

\* Variant of enqueue_again_maybe: the new task carries no certificate.
enqueue_again_maybe_dropping_cert(task, tx_cert) ==
    IF task.retry_times >= max_retry_times
    THEN /\ notify(task.transaction,
                   FailedAfterMaximumAttempts(task.retry_times + 1))
         /\ UNCHANGED sleeping
    ELSE /\ sleeping' = sleeping \cup
                {QuorumDriverTask(task.transaction, {}, task.retry_times + 1,
                                  next_retry_after(now, task.retry_times),
                                  task.waiter)}
         /\ UNCHANGED <<notifier, tickets>>

\* Variant of enqueue_again_maybe: the first failure of the execution step
\* starts the count of retries anew.
enqueue_again_maybe_counting_per_step(task, tx_cert) ==
    IF task.retry_times >= max_retry_times
    THEN /\ notify(task.transaction,
                   FailedAfterMaximumAttempts(task.retry_times + 1))
         /\ UNCHANGED sleeping
    ELSE /\ sleeping' = sleeping \cup
                {QuorumDriverTask(task.transaction, tx_cert,
                                  IF tx_cert # {} /\ task.tx_cert = {}
                                  THEN 0 ELSE task.retry_times + 1,
                                  next_retry_after(now, task.retry_times),
                                  task.waiter)}
         /\ UNCHANGED <<notifier, tickets>>

\* enqueue_again_maybe up to sleep_until.
enqueue_again_maybe(task, tx_cert) ==
    IF task.retry_times >= max_retry_times
    THEN /\ notify(task.transaction,
                   FailedAfterMaximumAttempts(task.retry_times + 1))
         /\ UNCHANGED sleeping
    ELSE /\ sleeping' = sleeping \cup
                {QuorumDriverTask(task.transaction, tx_cert, task.retry_times + 1,
                                  next_retry_after(now, task.retry_times),
                                  task.waiter)}
         /\ UNCHANGED <<notifier, tickets>>

(***************************************************************************)
(* Actions.                                                                 *)
(***************************************************************************)
\* Variant of submit_transaction: the task is enqueued without register_one,
\* as submit_transaction_no_ticket does; the caller's ticket is in no registry.
submit_transaction_no_ticket(transaction) ==
    /\ Len(task_queue) < TASK_QUEUE_SIZE
    /\ LET w == Len(tickets) + 1
       IN  /\ tickets' = Append(tickets, [digest |-> transaction, received |-> <<>>])
           /\ history' = Append(history, NoHistory)
           /\ task_queue' = Append(task_queue,
                  QuorumDriverTask(transaction, {}, 0, now, w))
    /\ UNCHANGED <<now, validators, loaded, bookkeeping, reconfig, attempt, max_retry_times, ask, running, sleeping,
                   notifier, effects_channel, requests>>
    /\ UNCHANGED aggregation_vars

\* QuorumDriver::submit_transaction: register_one, then enqueue_task.
submit_transaction(transaction) ==
    /\ Len(task_queue) < TASK_QUEUE_SIZE
    /\ LET w == Len(tickets) + 1
       IN  /\ notifier' = [notifier EXCEPT ![transaction] = @ \cup {w}]
           /\ tickets' = Append(tickets, [digest |-> transaction, received |-> <<>>])
           /\ history' = Append(history, NoHistory)
           /\ task_queue' = Append(task_queue,
                  QuorumDriverTask(transaction, {}, 0, now, w))
    /\ UNCHANGED <<now, validators, loaded, bookkeeping, reconfig, attempt, max_retry_times, ask, running, sleeping, effects_channel, requests>>
    /\ UNCHANGED aggregation_vars

\* One turn of the loop of task_queue_processor.
task_queue_processor ==
    /\ task_queue # <<>>
    /\ LET task == Head(task_queue)
       IN  IF now < task.next_retry_after
           THEN /\ task_queue' = Append(Tail(task_queue), task)
                /\ UNCHANGED <<running, history>>
           ELSE /\ task_queue' = Tail(task_queue)
                /\ running' = running \cup
                     {ProcessTask(task,
                                  IF task.tx_cert = {} THEN "process_transaction"
                                  ELSE "process_certificate",
                                  task.tx_cert, <<>>, {}, {})}
                /\ history' = [history EXCEPT ![task.waiter].attempts = @ + 1,
                                              ![task.waiter].started_at = now]
    /\ UNCHANGED <<now, validators, loaded, bookkeeping, reconfig, attempt, max_retry_times, ask, sleeping, notifier, tickets, effects_channel,
                   requests>>
    /\ UNCHANGED aggregation_vars

\* process_task after QuorumDriver::process_transaction, up to the next await:
\* the match on the aggregator's result, attempt_conflicting_transactions_maybe
\* and, with nothing to retry, the conversion of the error.
process_transaction_returns(p, result) ==
    LET task == p.task
        w == task.waiter
        evidence == DOMAIN result.conflicting_tx_digests # {}
        retry == attempt_conflicting_transactions_maybe(validators,
                     result.good_stake, result.conflicting_tx_digests)
        err == IF evidence
               THEN QuorumFailedToProcessTransactionWithConflictingTransactions(
                        result.conflicting_tx_digests, {}, {})
               ELSE QuorumFailedToProcessTransaction(result.good_stake,
                        result.conflicting_tx_digests)
        qd_error == convert_to_quorum_driver_error_if_nonretryable(err)
        failed == [history EXCEPT ![w].certifications = @ + 1,
                                  ![w].failures = @ + 1,
                                  ![w].last_failure = "certification",
                                  ![w].last_result = {result}]
    IN  /\ p.pc = "process_transaction"
        /\ IF result.is_ok
           THEN /\ running' = (running \ {p}) \cup
                      {[p EXCEPT !.pc = "process_certificate",
                                 !.tx_cert = result.certificate]}
                /\ history' = [history EXCEPT
                                  ![w].certifications = @ + 1,
                                  ![w].obtained = @ \cup result.certificate]
                /\ UNCHANGED <<sleeping, notifier, tickets>>
           ELSE IF evidence /\ retry # {}
           THEN /\ running' = (running \ {p}) \cup
                      {[p EXCEPT
                          !.pc = "handle_transaction_info_request",
                          !.conflicting_txes = result.conflicting_tx_digests,
                          !.retried = {r.tx_digest : r \in retry},
                          !.reporters = UNION {r.validators : r \in retry}]}
                /\ history' = [failed EXCEPT
                                  ![w].attempted = @ \cup {r.tx_digest : r \in retry}]
                /\ UNCHANGED <<sleeping, notifier, tickets>>
           ELSE IF qd_error # {}
           THEN /\ running' = running \ {p}
                /\ notify(task.transaction, CHOOSE e \in qd_error : TRUE)
                /\ history' = failed
                /\ UNCHANGED sleeping
           ELSE /\ running' = running \ {p}
                /\ enqueue_again_maybe(task, {})
                /\ history' = [failed EXCEPT ![w].retryable = @ + 1,
                                             ![w].failed_at = now]
        /\ UNCHANGED <<now, validators, loaded, bookkeeping, reconfig, attempt, max_retry_times, ask, task_queue, effects_channel, requests>>
        /\ UNCHANGED aggregation_vars

\* Variant of transaction_info_candidates: no restriction is passed on.
transaction_info_candidates_unrestricted(c, reporters) == shuffle_by_stake(c, {})

\* The candidates of handle_transaction_info_request_from_some_validators:
\* quorum_once_with_timeout(None, Some(validators), ..).
transaction_info_candidates(c, reporters) == shuffle_by_stake(c, {reporters})

\* The error process_transaction of the driver ends with once conflicting
\* transactions were observed, converted and delivered by process_task.
conflicting_transactions_error(p, retried_tx_digest, retried_tx_success) ==
    /\ running' = running \ {p}
    /\ notify(p.task.transaction,
              CHOOSE e \in convert_to_quorum_driver_error_if_nonretryable(
                  QuorumFailedToProcessTransactionWithConflictingTransactions(
                      p.conflicting_txes, retried_tx_digest, retried_tx_success)) :
                  TRUE)

\* Variant of handle_transaction_info_request_returns: the error of the fetch
\* is returned by process_transaction as it is, and being no
\* QuorumFailedToProcessTransactionWithConflictingTransactions it is retried.
handle_transaction_info_request_returns_propagating(p, asked, found) ==
    LET w == p.task.waiter
        tx_digest == CHOOSE d \in p.retried : TRUE
    IN  /\ p.pc = "handle_transaction_info_request"
        /\ asked # {}
        /\ asked \subseteq transaction_info_candidates(validators, p.reporters)
        /\ requests' = requests \cup
               {[tx_digest |-> tx_digest, request |-> "transaction_info",
                 authority |-> a] : a \in asked}
        /\ IF found = "error"
           THEN /\ running' = running \ {p}
                /\ enqueue_again_maybe(p.task, {})
                /\ history' = [history EXCEPT ![w].fetched = {found}]
           ELSE /\ running' = (running \ {p}) \cup
                      {[p EXCEPT !.pc = IF found = "certificate"
                                        THEN "retry_process_certificate"
                                        ELSE "retry_process_transaction"]}
                /\ history' = [history EXCEPT ![w].fetched = {found},
                                              ![w].executions = @ + 1]
                /\ UNCHANGED <<sleeping, notifier, tickets>>
        /\ UNCHANGED <<now, validators, loaded, bookkeeping, reconfig, attempt, max_retry_times, ask, task_queue, effects_channel>>
        /\ UNCHANGED aggregation_vars

\* attempt_one_conflicting_transaction after
\* handle_transaction_info_request_from_some_validators: quorum_once over the
\* candidates shuffle_by_stake(None, Some(validators)).  `asked` are the
\* candidates a request was started for; `found` is "certificate", "signed"
\* or "error".
handle_transaction_info_request_returns(p, asked, found) ==
    LET w == p.task.waiter
        tx_digest == CHOOSE d \in p.retried : TRUE
    IN  /\ p.pc = "handle_transaction_info_request"
        /\ asked # {}
        /\ asked \subseteq transaction_info_candidates(validators, p.reporters)
        /\ requests' = requests \cup
               {[tx_digest |-> tx_digest, request |-> "transaction_info",
                 authority |-> a] : a \in asked}
        /\ IF found = "error"
           THEN \* attempt_result is Err: it is logged, and the error returned
                \* carries no retried transaction.
                /\ conflicting_transactions_error(p, {}, {})
                /\ history' = [history EXCEPT ![w].fetched = {found}]
           ELSE /\ running' = (running \ {p}) \cup
                      {[p EXCEPT !.pc = IF found = "certificate"
                                        THEN "retry_process_certificate"
                                        ELSE "retry_process_transaction"]}
                /\ history' = [history EXCEPT ![w].fetched = {found},
                                              ![w].executions = @ + 1]
                /\ UNCHANGED <<notifier, tickets>>
        /\ UNCHANGED <<now, validators, loaded, bookkeeping, reconfig, attempt, max_retry_times, ask, task_queue, sleeping, effects_channel>>
        /\ UNCHANGED aggregation_vars

\* attempt_one_conflicting_transaction in execute_transaction of the
\* aggregator, after its process_transaction for the conflicting transaction:
\* a fan-out to the whole committee.
retry_process_transaction_returns(p, is_ok) ==
    LET w == p.task.waiter
        tx_digest == CHOOSE d \in p.retried : TRUE
    IN  /\ p.pc = "retry_process_transaction"
        /\ is_ok \in {r.is_ok : r \in ProcessTransactionResults[validators, tx_digest]}
        /\ requests' = requests \cup
               {[tx_digest |-> tx_digest, request |-> "transaction",
                 authority |-> a] : a \in shuffle_by_stake(validators, {})}
        /\ IF is_ok
           THEN /\ running' = (running \ {p}) \cup
                      {[p EXCEPT !.pc = "retry_process_certificate"]}
                /\ UNCHANGED <<notifier, tickets, history>>
           ELSE /\ conflicting_transactions_error(p, {tx_digest}, {FALSE})
                /\ history' = [history EXCEPT ![w].success = {FALSE}]
        /\ UNCHANGED <<now, validators, loaded, bookkeeping, reconfig, attempt, max_retry_times, ask, task_queue, sleeping, effects_channel>>
        /\ UNCHANGED aggregation_vars

\* Variant of retry_process_certificate_returns: the effects obtained for the
\* conflicting transaction are sent on the effects channel and delivered to
\* the waiters of its digest.
retry_process_certificate_returns_announcing(p, is_ok) ==
    LET w == p.task.waiter
        tx_digest == CHOOSE d \in p.retried : TRUE
        double_used == CHOOSE e \in convert_to_quorum_driver_error_if_nonretryable(
                           QuorumFailedToProcessTransactionWithConflictingTransactions(
                               p.conflicting_txes, {tx_digest}, {is_ok})) : TRUE
        response == OkResult({}, {})
    IN  /\ p.pc = "retry_process_certificate"
        /\ is_ok \in {r.is_ok : r \in ProcessCertificateResults[validators, tx_digest]}
        /\ requests' = requests \cup
               {[tx_digest |-> tx_digest, request |-> "certificate",
                 authority |-> a] : a \in shuffle_by_stake(validators, {})}
        /\ running' = running \ {p}
        /\ effects_channel' = IF is_ok
                              THEN Append(effects_channel,
                                       [response |-> response, receivers |-> 0])
                              ELSE effects_channel
        /\ tickets' = [x \in DOMAIN tickets |->
                         IF x \in notifier[p.task.transaction]
                         THEN [tickets[x] EXCEPT !.received = Append(@, double_used)]
                         ELSE IF is_ok /\ x \in notifier[tx_digest]
                         THEN [tickets[x] EXCEPT !.received = Append(@, response)]
                         ELSE tickets[x]]
        /\ notifier' = [d \in Digests |->
                          IF d = p.task.transaction \/ (is_ok /\ d = tx_digest)
                          THEN {} ELSE notifier[d]]
        /\ history' = [history EXCEPT ![w].success = {is_ok}]
        /\ UNCHANGED <<now, validators, loaded, bookkeeping, reconfig, attempt, max_retry_times, ask, task_queue, sleeping>>
        /\ UNCHANGED aggregation_vars

\* attempt_one_conflicting_transaction after process_certificate of the
\* aggregator for the conflicting transaction: a fan-out to the whole
\* committee; nothing is sent on the effects channel.
retry_process_certificate_returns(p, is_ok) ==
    LET w == p.task.waiter
        tx_digest == CHOOSE d \in p.retried : TRUE
    IN  /\ p.pc = "retry_process_certificate"
        /\ is_ok \in {r.is_ok : r \in ProcessCertificateResults[validators, tx_digest]}
        /\ requests' = requests \cup
               {[tx_digest |-> tx_digest, request |-> "certificate",
                 authority |-> a] : a \in shuffle_by_stake(validators, {})}
        /\ conflicting_transactions_error(p, {tx_digest}, {is_ok})
        /\ history' = [history EXCEPT ![w].success = {is_ok}]
        /\ UNCHANGED <<now, validators, loaded, bookkeeping, reconfig, attempt, max_retry_times, ask, task_queue, sleeping, effects_channel>>
        /\ UNCHANGED aggregation_vars

\* Variant of process_certificate_returns: the error of a send without
\* receivers is returned with `?`, so that the attempt counts as failed.
process_certificate_returns_requiring_subscriber(p, result, receivers) ==
    LET task == p.task
        w == task.waiter
        response == OkResult(p.tx_cert, result.effects_cert)
    IN  /\ p.pc = "process_certificate"
        /\ running' = running \ {p}
        /\ IF result.is_ok /\ receivers > 0
           THEN /\ effects_channel' = Append(effects_channel,
                       [response |-> response, receivers |-> receivers])
                /\ notify(task.transaction, response)
                /\ UNCHANGED <<sleeping, history>>
           ELSE /\ enqueue_again_maybe(task, p.tx_cert)
                /\ history' = [history EXCEPT ![w].failures = @ + 1,
                                              ![w].retryable = @ + 1,
                                              ![w].failed_at = now,
                                              ![w].last_failure = "execution"]
                /\ effects_channel' =
                       IF result.is_ok
                       THEN Append(effects_channel,
                                [response |-> response, receivers |-> receivers])
                       ELSE effects_channel
        /\ UNCHANGED <<now, validators, loaded, bookkeeping, reconfig, attempt, max_retry_times, ask, task_queue, requests>>
        /\ UNCHANGED aggregation_vars

\* process_task after QuorumDriver::process_certificate.  effects_channel
\* keeps every send on effects_subscribe_sender with the number of receivers
\* subscribed at the time; with none the send returns an error, which is
\* logged.
process_certificate_returns(p, result, receivers) ==
    LET task == p.task
        w == task.waiter
        response == OkResult(p.tx_cert, result.effects_cert)
    IN  /\ p.pc = "process_certificate"
        /\ running' = running \ {p}
        /\ IF result.is_ok
           THEN /\ effects_channel' = Append(effects_channel,
                       [response |-> response, receivers |-> receivers])
                /\ notify(task.transaction, response)
                /\ UNCHANGED <<sleeping, history>>
           ELSE /\ enqueue_again_maybe(task, p.tx_cert)
                /\ history' = [history EXCEPT ![w].failures = @ + 1,
                                              ![w].retryable = @ + 1,
                                              ![w].failed_at = now,
                                              ![w].last_failure = "execution"]
                /\ UNCHANGED effects_channel
        /\ UNCHANGED <<now, validators, loaded, bookkeeping, reconfig, attempt, max_retry_times, ask, task_queue, requests>>
        /\ UNCHANGED aggregation_vars

\* Variant of sleep_until_returns: the task is enqueued without sleeping.
sleep_until_returns_at_once(task) ==
    /\ Len(task_queue) < TASK_QUEUE_SIZE
    /\ sleeping' = sleeping \ {task}
    /\ task_queue' = Append(task_queue, task)
    /\ history' = [history EXCEPT ![task.waiter].enqueued = @ + 1]
    /\ UNCHANGED <<now, validators, loaded, bookkeeping, reconfig, attempt, max_retry_times, ask, running, notifier, tickets, effects_channel,
                   requests>>
    /\ UNCHANGED aggregation_vars

\* enqueue_again_maybe after sleep_until: enqueue_task.
sleep_until_returns(task) ==
    /\ now >= task.next_retry_after
    /\ Len(task_queue) < TASK_QUEUE_SIZE
    /\ sleeping' = sleeping \ {task}
    /\ task_queue' = Append(task_queue, task)
    /\ history' = [history EXCEPT ![task.waiter].enqueued = @ + 1]
    /\ UNCHANGED <<now, validators, loaded, bookkeeping, reconfig, attempt, max_retry_times, ask, running, notifier, tickets, effects_channel,
                   requests>>
    /\ UNCHANGED aggregation_vars

\* Time passes: freely up to MaxIdleTime, and as long as a retry sleeps.
Tick ==
    /\ \/ now < MaxIdleTime
       \/ \E task \in sleeping : now < task.next_retry_after
    /\ now' = now + 1
    /\ UNCHANGED <<validators, loaded, bookkeeping, reconfig, attempt, max_retry_times, ask, task_queue, running, sleeping, notifier, tickets,
                   effects_channel, requests, history>>
    /\ UNCHANGED aggregation_vars

\* A caller submits a transaction; a behaviour follows one submission.
Submit ==
    /\ tickets = <<>>
    /\ \E transaction \in SubmittedTxs : submit_transaction(transaction)

ProcessTransactionReturns ==
    \E p \in running :
       \E result \in ProcessTransactionResults[validators, p.task.transaction] :
          process_transaction_returns(p, result)

HandleTransactionInfoRequestReturns ==
    \E p \in running :
       \E asked \in SUBSET Authorities, found \in {"certificate", "signed", "error"} :
          handle_transaction_info_request_returns(p, asked, found)

RetryProcessTransactionReturns ==
    \E p \in running, is_ok \in BOOLEAN : retry_process_transaction_returns(p, is_ok)

RetryProcessCertificateReturns ==
    \E p \in running, is_ok \in BOOLEAN : retry_process_certificate_returns(p, is_ok)

ProcessCertificateReturns ==
    \E p \in running :
       \E result \in ProcessCertificateResults[validators, p.task.transaction] :
          \E receivers \in 0..MaxSubscribers :
             process_certificate_returns(p, result, receivers)

SleepUntilReturns == \E task \in sleeping : sleep_until_returns(task)

Next ==
    \/ Submit
    \/ task_queue_processor
    \/ ProcessTransactionReturns
    \/ HandleTransactionInfoRequestReturns
    \/ RetryProcessTransactionReturns
    \/ RetryProcessCertificateReturns
    \/ ProcessCertificateReturns
    \/ SleepUntilReturns
    \/ Tick

Spec == Init /\ [][Next]_vars

\* The runtime runs every spawned task, every aggregation call returns and
\* the clock advances; nobody has to submit.
Fairness ==
    /\ WF_vars(task_queue_processor)
    /\ WF_vars(ProcessTransactionReturns)
    /\ WF_vars(HandleTransactionInfoRequestReturns)
    /\ WF_vars(RetryProcessTransactionReturns)
    /\ WF_vars(RetryProcessCertificateReturns)
    /\ WF_vars(ProcessCertificateReturns)
    /\ WF_vars(SleepUntilReturns)
    /\ WF_vars(Tick)

LiveSpec == Spec /\ Fairness

(***************************************************************************)
(* One aggregation call, response by response: the loop of                  *)
(* quorum_map_then_reduce_with_timeout_and_prefs around the reduce closure  *)
(* of process_transaction or of process_certificate, for transaction T1.    *)
(***************************************************************************)
\* A committee of unequal stake (total 5, quorum 4, validity 2).
WeightedCommittee ==
    [epoch |-> 0,
     voting_rights |-> [a \in Authorities |-> IF a = "a1" THEN 2 ELSE 1]]

AggregatorCommittees == {GenesisCommittee, WeightedCommittee}

\* A certificate an authority returns for T1, formed at `epoch`.
ReturnedCertificate(epoch) ==
    [digest |-> "T1", epoch |-> epoch, signatures |-> <<"earlier">>]

SignedEffects(epoch, digest) == [epoch |-> epoch, digest |-> digest]

\* What an authority may answer to handle_transaction: besides the answers
\* of TransactionAnswers, a signature or a certificate of another epoch, a
\* certificate of the current epoch, and a certificate of another epoch with
\* signed effects.
AllTransactionAnswers ==
    TransactionAnswers \cup
    {SignedBy(1),
     OkResponse({}, {ReturnedCertificate(0)}, {}),
     OkResponse({}, {ReturnedCertificate(1)}, {}),
     OkResponse({}, {ReturnedCertificate(1)}, {SignedEffects(1, "D1")}),
     OkResponse({}, {ReturnedCertificate(1)}, {SignedEffects(1, "D2")})}

\* What an authority may answer to handle_certificate.
AllCertificateAnswers ==
    {OkResponse({}, {}, {SignedEffects(0, "D1")}),
     OkResponse({}, {}, {SignedEffects(0, "D2")}),
     OkResponse({}, {}, {SignedEffects(1, "D1")}),
     OtherError}

\* What an authority may answer to handle_object_info_request.
ObjectAnswers == {ObjectInfoResponse, OtherError}

AnswersTo(call) ==
    IF call = "process_transaction" THEN AllTransactionAnswers
    ELSE IF call = "process_certificate" THEN AllCertificateAnswers
    ELSE ObjectAnswers

InitialState(call) ==
    IF call = "process_transaction" THEN ProcessTransactionState
    ELSE IF call = "process_certificate" THEN ProcessCertificateState
    ELSE GetObjectByIDRequestState

\* The call starts: one request per authority of the committee.
AggregationInit ==
    /\ now = 0
    /\ validators \in AggregatorCommittees
    /\ loaded = {}
    /\ bookkeeping = <<>>
    /\ reconfig = <<>>
    /\ attempt = <<>>
    /\ max_retry_times = MaxRetryTimes
    /\ ask = <<>>
    /\ task_queue = <<>>
    /\ running = {}
    /\ sleeping = {}
    /\ notifier = [d \in Digests |-> {}]
    /\ tickets = <<>>
    /\ effects_channel = <<>>
    /\ requests = {}
    /\ history = <<>>
    /\ aggregation \in {"process_transaction", "process_certificate"}
    /\ responses = shuffle_by_stake(validators, {})
    /\ accumulated_state = InitialState(aggregation)
    /\ returned = {}
    /\ folded = <<>>
    /\ current_timeout = PreQuorumTimeout
    /\ waited = 0
    /\ elapsed = 0
    /\ OnceIdle

\* Variant of after_reduce: End is taken as Continue.
after_reduce_never_ends(output, state) == {}

\* The match on what reduce_result returned: End returns the state, an error
\* of the reducer is returned by `?`, Continue and ContinueWithTimeout go on
\* with the loop.
after_reduce(output, state) == IF output \in {"End", "Err"} THEN {state} ELSE {}

\* Variant of fold_response: an authority's error is returned to the caller
\* as the error of the call.
fold_response_failing_on_error(name, result) ==
    LET r == reduce_result(aggregation, validators, "T1", accumulated_state,
                           name, weight(validators, name), result)
    IN  /\ aggregation # "idle"
        /\ returned = {}
        /\ name \in responses
        /\ responses' = responses \ {name}
        /\ accumulated_state' = r.state
        /\ returned' = IF result.is_ok THEN after_reduce(r.output, r.state)
                       ELSE {[error |-> "Error", errors |-> <<name>>]}
        /\ current_timeout' = IF r.output = "ContinueWithTimeout"
                              THEN r.duration ELSE current_timeout
        /\ waited' = 0
        /\ folded' = Append(folded, [name |-> name, result |-> result,
                                     weight |-> weight(validators, name),
                                     output |-> r.output, state |-> r.state,
                                     waited |-> waited, timeout |-> current_timeout])
        /\ UNCHANGED <<driver_vars, once_vars, aggregation, elapsed>>

\* Variant of fold_response: the timeout is not armed anew, the ticks already
\* waited count against the next wait as well.
fold_response_without_rearming(name, result) ==
    LET r == reduce_result(aggregation, validators, "T1", accumulated_state,
                           name, weight(validators, name), result)
    IN  /\ aggregation # "idle"
        /\ returned = {}
        /\ name \in responses
        /\ responses' = responses \ {name}
        /\ accumulated_state' = r.state
        /\ returned' = after_reduce(r.output, r.state)
        /\ current_timeout' = IF r.output = "ContinueWithTimeout"
                              THEN r.duration ELSE current_timeout
        /\ waited' = waited
        /\ folded' = Append(folded, [name |-> name, result |-> result,
                                     weight |-> weight(validators, name),
                                     output |-> r.output, state |-> r.state,
                                     waited |-> waited, timeout |-> current_timeout])
        /\ UNCHANGED <<driver_vars, once_vars, aggregation, elapsed>>

\* One turn of the loop: responses.next() yields the answer of `name`, and
\* reduce_result folds it into accumulated_state.
fold_response(name, result) ==
    LET r == reduce_result(aggregation, validators, "T1", accumulated_state,
                           name, weight(validators, name), result)
    IN  /\ aggregation # "idle"
        /\ returned = {}
        /\ name \in responses
        /\ responses' = responses \ {name}
        /\ accumulated_state' = r.state
        /\ returned' = after_reduce(r.output, r.state)
        /\ current_timeout' = IF r.output = "ContinueWithTimeout"
                              THEN r.duration ELSE current_timeout
        /\ waited' = 0
        /\ folded' = Append(folded, [name |-> name, result |-> result,
                                     weight |-> weight(validators, name),
                                     output |-> r.output, state |-> r.state,
                                     waited |-> waited, timeout |-> current_timeout])
        /\ UNCHANGED <<driver_vars, once_vars, aggregation, elapsed>>

\* timeout(current_timeout, responses.next()) elapses: the loop ends with
\* what was accumulated.
timeout_elapses ==
    /\ aggregation # "idle"
    /\ returned = {}
    /\ responses # {}
    /\ returned' = {accumulated_state}
    /\ UNCHANGED <<driver_vars, once_vars, aggregation, responses, accumulated_state, folded,
                   timing_vars>>

\* responses.next() yields None: every authority has answered.
responses_exhausted ==
    /\ aggregation # "idle"
    /\ returned = {}
    /\ responses = {}
    /\ returned' = {accumulated_state}
    /\ UNCHANGED <<driver_vars, once_vars, aggregation, responses, accumulated_state, folded,
                   timing_vars>>

\* An authority answers after the call returned: its future was dropped with
\* `responses`, the answer goes nowhere.
answer_discarded(name) ==
    /\ returned # {}
    /\ name \in responses
    /\ responses' = responses \ {name}
    /\ UNCHANGED <<driver_vars, once_vars, aggregation, accumulated_state, returned, folded,
                   timing_vars>>

FoldResponse ==
    \E name \in Authorities : \E result \in AnswersTo(aggregation) :
       fold_response(name, result)

AnswerDiscarded == \E name \in Authorities : answer_discarded(name)

AggregationNext ==
    \/ FoldResponse
    \/ timeout_elapses
    \/ responses_exhausted
    \/ AnswerDiscarded

AggregationSpec == AggregationInit /\ [][AggregationNext]_vars

(***************************************************************************)
(* The same loop with the clock, under get_object_by_id.  AggregationSpec   *)
(* leaves the clock out, so that its timeout may elapse at any step; here    *)
(* the wait for the next response takes ticks and the timeout elapses when   *)
(* current_timeout of them have passed.                                      *)
(***************************************************************************)
GetObjectInit ==
    /\ now = 0
    /\ validators \in AggregatorCommittees
    /\ loaded = {}
    /\ bookkeeping = <<>>
    /\ reconfig = <<>>
    /\ attempt = <<>>
    /\ max_retry_times = MaxRetryTimes
    /\ ask = <<>>
    /\ task_queue = <<>>
    /\ running = {}
    /\ sleeping = {}
    /\ notifier = [d \in Digests |-> {}]
    /\ tickets = <<>>
    /\ effects_channel = <<>>
    /\ requests = {}
    /\ history = <<>>
    /\ aggregation = "get_object_by_id"
    /\ responses = shuffle_by_stake(validators, {})
    /\ accumulated_state = InitialState(aggregation)
    /\ returned = {}
    /\ folded = <<>>
    /\ current_timeout = PreQuorumTimeout
    /\ waited = 0
    /\ elapsed = 0
    /\ OnceIdle

\* A tick passes while timeout(current_timeout, responses.next()) is pending.
wait_for_response ==
    /\ aggregation # "idle"
    /\ returned = {}
    /\ responses # {}
    /\ waited < current_timeout
    /\ waited' = waited + 1
    /\ elapsed' = elapsed + 1
    /\ UNCHANGED <<driver_vars, once_vars, aggregation, responses, accumulated_state, returned,
                   folded, current_timeout>>

\* The timeout of the current wait has run out.
timeout_fires == waited = current_timeout /\ timeout_elapses

GetObjectNext ==
    \/ FoldResponse
    \/ wait_for_response
    \/ timeout_fires
    \/ responses_exhausted
    \/ AnswerDiscarded

GetObjectSpec == GetObjectInit /\ [][GetObjectNext]_vars

(***************************************************************************)
(* An aggregation call of the driver while update_validators may run:      *)
(* the call loads the aggregator from `validators` once, and folds every    *)
(* response with the committee of what it loaded.                           *)
(***************************************************************************)
UpdateValidatorsInit ==
    /\ now = 0
    /\ validators \in AggregatorCommittees
    /\ loaded = {}
    /\ bookkeeping = <<>>
    /\ reconfig = <<>>
    /\ attempt = <<>>
    /\ max_retry_times = MaxRetryTimes
    /\ ask = <<>>
    /\ task_queue = <<>>
    /\ running = {}
    /\ sleeping = {}
    /\ notifier = [d \in Digests |-> {}]
    /\ tickets = <<>>
    /\ effects_channel = <<>>
    /\ requests = {}
    /\ history = <<>>
    /\ aggregation = "idle"
    /\ responses = {}
    /\ accumulated_state = <<>>
    /\ returned = {}
    /\ folded = <<>>
    /\ current_timeout = PreQuorumTimeout
    /\ waited = 0
    /\ elapsed = 0
    /\ OnceIdle

\* self.validators.store(new_validators)
update_validators(new_validators) ==
    /\ validators # new_validators
    /\ validators' = new_validators
    /\ UNCHANGED <<now, loaded, bookkeeping, reconfig, attempt, max_retry_times, ask, task_queue, running, sleeping, notifier, tickets,
                   effects_channel, requests, history, aggregation_vars>>

\* self.validators.load().process_transaction(..) or .process_certificate(..):
\* the call starts on the aggregator loaded, with one request per authority
\* of its authority_clients.
load_validators(call) ==
    /\ aggregation = "idle"
    /\ loaded' = {validators}
    /\ aggregation' = call
    /\ responses' = shuffle_by_stake(validators, {})
    /\ accumulated_state' = InitialState(call)
    /\ UNCHANGED <<now, validators, bookkeeping, reconfig, attempt, max_retry_times, ask, task_queue, running, sleeping, notifier, tickets,
                   effects_channel, requests, history, returned, folded, timing_vars,
                   once_vars>>

\* Variant of fold_in_snapshot: the committee is read from `validators` anew
\* at every response.
fold_in_snapshot_reloading(self, name, result) ==
    LET r == reduce_result(aggregation, validators, "T1", accumulated_state,
                           name, weight(validators, name), result)
    IN  /\ aggregation # "idle"
        /\ returned = {}
        /\ name \in responses
        /\ responses' = responses \ {name}
        /\ accumulated_state' = r.state
        /\ returned' = after_reduce(r.output, r.state)
        /\ current_timeout' = IF r.output = "ContinueWithTimeout"
                              THEN r.duration ELSE current_timeout
        /\ waited' = 0
        /\ folded' = Append(folded, [name |-> name, result |-> result,
                                     weight |-> weight(validators, name),
                                     output |-> r.output, state |-> r.state,
                                     waited |-> waited, timeout |-> current_timeout])
        /\ UNCHANGED <<driver_vars, once_vars, aggregation, elapsed>>

\* One turn of the loop of the call, on the aggregator `self` it was started
\* on: fold_response with self.committee.
fold_in_snapshot(self, name, result) ==
    LET r == reduce_result(aggregation, self, "T1", accumulated_state,
                           name, weight(self, name), result)
    IN  /\ aggregation # "idle"
        /\ returned = {}
        /\ self \in loaded
        /\ name \in responses
        /\ responses' = responses \ {name}
        /\ accumulated_state' = r.state
        /\ returned' = after_reduce(r.output, r.state)
        /\ current_timeout' = IF r.output = "ContinueWithTimeout"
                              THEN r.duration ELSE current_timeout
        /\ waited' = 0
        /\ folded' = Append(folded, [name |-> name, result |-> result,
                                     weight |-> weight(self, name),
                                     output |-> r.output, state |-> r.state,
                                     waited |-> waited, timeout |-> current_timeout])
        /\ UNCHANGED <<driver_vars, once_vars, aggregation, elapsed>>

UpdateValidatorsNext ==
    \/ \E new_validators \in AggregatorCommittees : update_validators(new_validators)
    \/ \E call \in {"process_transaction", "process_certificate"} : load_validators(call)
    \/ \E self \in AggregatorCommittees : \E name \in Authorities :
          \E result \in AnswersTo(aggregation) : fold_in_snapshot(self, name, result)
    \/ timeout_elapses
    \/ responses_exhausted
    \/ AnswerDiscarded

UpdateValidatorsSpec == UpdateValidatorsInit /\ [][UpdateValidatorsNext]_vars

(***************************************************************************)
(* The thresholds process_transaction reads from its committee, over       *)
(* committees of every total stake from 1 up.                               *)
(***************************************************************************)
\* The committees over a non-empty set of authorities with stakes up to
\* MaxStake each.
StakeCommittees ==
    UNION {{[epoch |-> 0, voting_rights |-> v] : v \in [S -> 1..MaxStake]} :
           S \in SUBSET Authorities \ {{}}}

ThresholdInit ==
    /\ now = 0
    /\ validators \in StakeCommittees
    /\ loaded = {}
    /\ bookkeeping = <<>>
    /\ reconfig = <<>>
    /\ attempt = <<>>
    /\ max_retry_times = MaxRetryTimes
    /\ ask = <<>>
    /\ task_queue = <<>>
    /\ running = {}
    /\ sleeping = {}
    /\ notifier = [d \in Digests |-> {}]
    /\ tickets = <<>>
    /\ effects_channel = <<>>
    /\ requests = {}
    /\ history = <<>>
    /\ aggregation = "idle"
    /\ responses = {}
    /\ accumulated_state = <<>>
    /\ returned = {}
    /\ folded = <<>>
    /\ current_timeout = PreQuorumTimeout
    /\ waited = 0
    /\ elapsed = 0
    /\ OnceIdle

\* let threshold = self.committee.quorum_threshold();
\* let validity = self.committee.validity_threshold();
read_thresholds ==
    /\ aggregation = "idle"
    /\ aggregation' = "process_transaction"
    /\ accumulated_state' = [threshold |-> quorum_threshold(validators),
                             validity |-> validity_threshold(validators)]
    /\ UNCHANGED <<driver_vars, once_vars, responses, returned, folded, timing_vars>>

ThresholdSpec == ThresholdInit /\ [][read_thresholds]_vars

(***************************************************************************)
(* authorty_ask_for_cert_with_retry_and_timeout: the loop that asks the     *)
(* local authority, then the network, then sleeps, under one timeout.       *)
(***************************************************************************)
\* What get_tx_info_already_executed may answer: Ok(None), Ok(Some(info))
\* with or without a certificate in info, or an error.
LocalAnswers == {"none", "certificate", "no_certificate", "error"}

\* The certificate the local authority holds for T1.
LocalCertificate == [digest |-> "T1", epoch |-> 0, signatures |-> <<"local">>]

AskForCertInit ==
    /\ now = 0
    /\ validators = GenesisCommittee
    /\ loaded = {}
    /\ bookkeeping = <<>>
    /\ reconfig = <<>>
    /\ attempt = <<>>
    /\ max_retry_times = MaxRetryTimes
    /\ ask = [pc |-> "check_local", iteration |-> 1, local |-> <<>>, result |-> {}]
    /\ task_queue = <<>>
    /\ running = {}
    /\ sleeping = {}
    /\ notifier = [d \in Digests |-> {}]
    /\ tickets = <<>>
    /\ effects_channel = <<>>
    /\ requests = {}
    /\ history = <<>>
    /\ aggregation = "idle"
    /\ responses = {}
    /\ accumulated_state = <<>>
    /\ returned = {}
    /\ folded = <<>>
    /\ current_timeout = PreQuorumTimeout
    /\ waited = 0
    /\ elapsed = 0
    /\ OnceIdle

\* Variant of ask_check_local: the local certificate is noted, and the
\* network is asked all the same.
ask_check_local_then_network(info) ==
    /\ ask # <<>>
    /\ ask.pc = "check_local"
    /\ ask' = [ask EXCEPT !.local = Append(@, info), !.pc = "process_transaction"]
    /\ UNCHANGED <<now, validators, loaded, bookkeeping, reconfig, attempt, max_retry_times, task_queue, running, sleeping, notifier,
                   tickets, effects_channel, requests, history, aggregation_vars>>

\* The top of the loop: state.get_tx_info_already_executed(digest); with a
\* certificate in the answer the call returns it.
ask_check_local(info) ==
    /\ ask # <<>>
    /\ ask.pc = "check_local"
    /\ ask' = IF info = "certificate"
              THEN [ask EXCEPT !.local = Append(@, info), !.pc = "returned",
                               !.result = {[is_ok |-> TRUE, cert |-> LocalCertificate]}]
              ELSE [ask EXCEPT !.local = Append(@, info), !.pc = "process_transaction"]
    /\ UNCHANGED <<now, validators, loaded, bookkeeping, reconfig, attempt, max_retry_times, task_queue, running, sleeping, notifier,
                   tickets, effects_channel, requests, history, aggregation_vars>>

\* self.process_transaction(transaction.clone()): every authority of the
\* committee is sent the transaction; a certificate is returned, an error is
\* logged.
ask_process_transaction(result) ==
    /\ ask # <<>>
    /\ ask.pc = "process_transaction"
    /\ result \in ProcessTransactionResults[validators, "T1"]
    /\ requests' = requests \cup
           {[tx_digest |-> "T1", request |-> "transaction", authority |-> a,
             iteration |-> ask.iteration] : a \in shuffle_by_stake(validators, {})}
    /\ ask' = IF result.is_ok
              THEN [ask EXCEPT !.pc = "returned",
                               !.result = {[is_ok |-> TRUE, cert |-> c] :
                                              c \in result.certificate}]
              ELSE [ask EXCEPT !.pc = "sleep"]
    /\ UNCHANGED <<now, validators, loaded, bookkeeping, reconfig, attempt, max_retry_times, task_queue, running, sleeping, notifier,
                   tickets, effects_channel, history, aggregation_vars>>

\* tokio::time::sleep(100 ms) returns and the loop starts over.
ask_sleep_returns ==
    /\ ask # <<>>
    /\ ask.pc = "sleep"
    /\ ask.iteration < MaxIterations
    /\ ask' = [ask EXCEPT !.pc = "check_local", !.iteration = @ + 1]
    /\ UNCHANGED <<now, validators, loaded, bookkeeping, reconfig, attempt, max_retry_times, task_queue, running, sleeping, notifier,
                   tickets, effects_channel, requests, history, aggregation_vars>>

\* tokio::time::timeout(timeout, ..) elapses at one of the awaits.
ask_timeout_elapses ==
    /\ ask # <<>>
    /\ ask.pc \in {"check_local", "process_transaction", "sleep"}
    /\ ask' = [ask EXCEPT !.pc = "returned",
                          !.result = {[is_ok |-> FALSE, error |-> "Elapsed"]}]
    /\ UNCHANGED <<now, validators, loaded, bookkeeping, reconfig, attempt, max_retry_times, task_queue, running, sleeping, notifier,
                   tickets, effects_channel, requests, history, aggregation_vars>>

AskForCertNext ==
    \/ \E info \in LocalAnswers : ask_check_local(info)
    \/ \E result \in ProcessTransactionResults[validators, "T1"] :
          ask_process_transaction(result)
    \/ ask_sleep_returns
    \/ ask_timeout_elapses

AskForCertSpec == AskForCertInit /\ [][AskForCertNext]_vars

(***************************************************************************)
(* quorum_once_with_timeout and quorum_once_inner.  Time is in ticks of one  *)
(* second.  A request to an authority takes behaviour[name].latency ticks   *)
(* and then yields success or an error; a latency above PerRequestTimeout    *)
(* is an authority whose answer the timeout of the request precedes.         *)
(***************************************************************************)
Min(a, b) == IF a <= b THEN a ELSE b

\* The restrictions the model calls with.
Restrictions == {{{}}, {{"a1"}}, {{"a1", "a2"}}}

Behaviours == [latency : 0..(PerRequestTimeout + 1), ok : BOOLEAN]

\* The orders shuffle_by_stake may put a set of candidates in.
Orders(S) ==
    {o \in [1..Cardinality(S) -> S] : \A i, j \in 1..Cardinality(S) : o[i] = o[j] => i = j}

QuorumOnceInit ==
    /\ now = 0
    /\ validators = GenesisCommittee
    /\ loaded = {}
    /\ bookkeeping = <<>>
    /\ reconfig = <<>>
    /\ attempt = <<>>
    /\ max_retry_times = MaxRetryTimes
    /\ ask = <<>>
    /\ task_queue = <<>>
    /\ running = {}
    /\ sleeping = {}
    /\ notifier = [d \in Digests |-> {}]
    /\ tickets = <<>>
    /\ effects_channel = <<>>
    /\ requests = {}
    /\ history = <<>>
    /\ aggregation = "idle"
    /\ responses = {}
    /\ accumulated_state = <<>>
    /\ returned = {}
    /\ folded = <<>>
    /\ current_timeout = PreQuorumTimeout
    /\ waited = 0
    /\ elapsed = 0
    /\ once = "start"
    /\ restrict_to \in Restrictions
    /\ timeout_total \in {{}, {TotalTimeout}}
    /\ behaviour \in [shuffle_by_stake(validators, restrict_to) -> Behaviours]
    /\ authorities_shuffled = <<>>
    /\ futures = <<>>
    /\ interval_age = 0
    /\ delay = BaseDelay
    /\ authority_errors = <<>>
    /\ latest_failure = <<>>
    /\ clock = 0
    /\ once_result = {}
    /\ requested = {}
    /\ abandoned = {}
    /\ slept = <<>>

\* futures without the request to `name`.
Without(fs, name) == [n \in DOMAIN fs \ {name} |-> fs[n]]

\* Variant of Insert: the first error recorded for an authority is kept.
Insert_if_absent(errors, name, error) ==
    [n \in DOMAIN errors \cup {name} |->
        IF n \in DOMAIN errors THEN errors[n] ELSE error]

\* authority_errors.insert(name, error)
Insert(errors, name, error) ==
    [n \in DOMAIN errors \cup {name} |-> IF n = name THEN error ELSE errors[n]]

\* The end of a turn of the inner loop: the next candidate's request is
\* started, or, none being left, the loop is left and what is in `fs` is
\* polled no more.
start_next_or_break(fs) ==
    IF authorities_shuffled # <<>>
    THEN /\ futures' = [n \in DOMAIN fs \cup {Head(authorities_shuffled)} |->
                           IF n = Head(authorities_shuffled) THEN 0 ELSE fs[n]]
         /\ authorities_shuffled' = Tail(authorities_shuffled)
         /\ requested' = requested \cup {Head(authorities_shuffled)}
         /\ UNCHANGED <<once, abandoned>>
    ELSE /\ futures' = <<>>
         /\ once' = "sleeping"
         /\ abandoned' = abandoned \cup {[name |-> n, age |-> fs[n]] : n \in DOMAIN fs}
         /\ UNCHANGED <<authorities_shuffled, requested>>

\* Variant of start_cycle: with no candidate the cycle counts as failed and
\* is restarted after the backoff sleep.
start_cycle_retrying_when_empty(order) ==
    /\ once = "start"
    /\ order \in Orders(shuffle_by_stake(validators, restrict_to))
    /\ IF order = <<>>
       THEN /\ once' = "sleeping"
            /\ UNCHANGED <<authorities_shuffled, futures, interval_age, requested,
                           once_result>>
       ELSE /\ once' = "requesting"
            /\ futures' = [n \in {order[1]} |-> 0]
            /\ authorities_shuffled' = Tail(order)
            /\ interval_age' = 0
            /\ requested' = requested \cup {order[1]}
            /\ UNCHANGED once_result
    /\ UNCHANGED <<driver_vars, aggregation, responses, accumulated_state, returned,
                   folded, timing_vars, restrict_to, timeout_total, behaviour, delay,
                   authority_errors, latest_failure, clock, abandoned, slept>>

\* The top of the outer loop: the candidates are shuffled, and the first
\* request and schedule_next are pushed; no candidate is an error.
start_cycle(order) ==
    /\ once = "start"
    /\ order \in Orders(shuffle_by_stake(validators, restrict_to))
    /\ IF order = <<>>
       THEN /\ once' = "done"
            /\ once_result' = {[is_ok |-> FALSE,
                                error |-> "Available authorities list is empty"]}
            /\ UNCHANGED <<authorities_shuffled, futures, interval_age, requested>>
       ELSE /\ once' = "requesting"
            /\ futures' = [n \in {order[1]} |-> 0]
            /\ authorities_shuffled' = Tail(order)
            /\ interval_age' = 0
            /\ requested' = requested \cup {order[1]}
            /\ UNCHANGED once_result
    /\ UNCHANGED <<driver_vars, aggregation, responses, accumulated_state, returned,
                   folded, timing_vars, restrict_to, timeout_total, behaviour, delay,
                   authority_errors, latest_failure, clock, abandoned, slept>>

\* Event::StartNext: schedule_next is pushed again.
start_next ==
    /\ once = "requesting"
    /\ interval_age = SerialRequestInterval
    /\ interval_age' = 0
    /\ start_next_or_break(futures)
    /\ UNCHANGED <<driver_vars, aggregation, responses, accumulated_state, returned,
                   folded, timing_vars, restrict_to, timeout_total, behaviour, delay,
                   authority_errors, latest_failure, clock, once_result, slept>>

\* Variant of request_succeeds: the successful response is returned only
\* when no other request is in flight.
request_succeeds_when_alone(name) ==
    /\ once = "requesting"
    /\ DOMAIN futures = {name}
    /\ futures[name] = behaviour[name].latency
    /\ behaviour[name].ok
    /\ once' = "done"
    /\ once_result' = {[is_ok |-> TRUE, response |-> name]}
    /\ UNCHANGED <<driver_vars, aggregation, responses, accumulated_state, returned,
                   folded, timing_vars, restrict_to, timeout_total, behaviour,
                   authorities_shuffled, futures, interval_age, delay, authority_errors,
                   latest_failure,
                   clock, requested, abandoned, slept>>

\* Event::Request(name, Ok(Ok(res))): the call returns res.
request_succeeds(name) ==
    /\ once = "requesting"
    /\ name \in DOMAIN futures
    /\ futures[name] = behaviour[name].latency
    /\ behaviour[name].ok
    /\ once' = "done"
    /\ once_result' = {[is_ok |-> TRUE, response |-> name]}
    /\ UNCHANGED <<driver_vars, aggregation, responses, accumulated_state, returned,
                   folded, timing_vars, restrict_to, timeout_total, behaviour,
                   authorities_shuffled, futures, interval_age, delay, authority_errors,
                   latest_failure,
                   clock, requested, abandoned, slept>>

\* Event::Request(name, Ok(Err(e))): the error is recorded.
request_errors(name) ==
    /\ once = "requesting"
    /\ name \in DOMAIN futures
    /\ futures[name] = behaviour[name].latency
    /\ ~behaviour[name].ok
    /\ authority_errors' = Insert(authority_errors, name, "Error")
    /\ latest_failure' = [n \in DOMAIN latest_failure \cup {name} |->
                          IF n = name THEN "Error" ELSE latest_failure[n]]
    /\ start_next_or_break(Without(futures, name))
    /\ UNCHANGED <<driver_vars, aggregation, responses, accumulated_state, returned,
                   folded, timing_vars, restrict_to, timeout_total, behaviour,
                   interval_age, delay, clock, once_result, slept>>

\* Variant of request_times_out: a request that reached its timeout is
\* waited for all the same, and a successful answer is returned.
request_times_out_returning_late_answer(name) ==
    /\ once = "requesting"
    /\ name \in DOMAIN futures
    /\ futures[name] = PerRequestTimeout
    /\ IF behaviour[name].ok
       THEN /\ once' = "done"
            /\ once_result' = {[is_ok |-> TRUE, response |-> name]}
            /\ UNCHANGED <<authorities_shuffled, futures, authority_errors, latest_failure,
                           requested, abandoned>>
       ELSE /\ authority_errors' = Insert(authority_errors, name, "TimeoutError")
            /\ latest_failure' = [n \in DOMAIN latest_failure \cup {name} |->
                                  IF n = name THEN "TimeoutError" ELSE latest_failure[n]]
            /\ start_next_or_break(Without(futures, name))
            /\ UNCHANGED once_result
    /\ UNCHANGED <<driver_vars, aggregation, responses, accumulated_state, returned,
                   folded, timing_vars, restrict_to, timeout_total, behaviour,
                   interval_age, delay, clock, slept>>

\* Event::Request(name, Err(Elapsed)): TimeoutError is recorded.
request_times_out(name) ==
    /\ once = "requesting"
    /\ name \in DOMAIN futures
    /\ futures[name] = PerRequestTimeout
    /\ authority_errors' = Insert(authority_errors, name, "TimeoutError")
    /\ latest_failure' = [n \in DOMAIN latest_failure \cup {name} |->
                          IF n = name THEN "TimeoutError" ELSE latest_failure[n]]
    /\ start_next_or_break(Without(futures, name))
    /\ UNCHANGED <<driver_vars, aggregation, responses, accumulated_state, returned,
                   folded, timing_vars, restrict_to, timeout_total, behaviour,
                   interval_age, delay, clock, once_result, slept>>

\* A second passes while futures.next() is pending: no request is due to
\* complete or to time out, schedule_next is not due, timeout_total is not
\* reached.
second_passes ==
    /\ once = "requesting"
    /\ \A n \in DOMAIN futures :
          futures[n] < PerRequestTimeout /\ futures[n] # behaviour[n].latency
    /\ interval_age < SerialRequestInterval
    /\ \A t \in timeout_total : clock < t
    /\ futures' = [n \in DOMAIN futures |-> futures[n] + 1]
    /\ interval_age' = interval_age + 1
    /\ clock' = clock + 1
    /\ UNCHANGED <<driver_vars, aggregation, responses, accumulated_state, returned,
                   folded, timing_vars, once, restrict_to, timeout_total, behaviour,
                   authorities_shuffled, delay, authority_errors, latest_failure, once_result,
                   requested, abandoned, slept>>

\* Variant of sleep_returns: the delay is doubled without a cap.
sleep_returns_uncapped ==
    /\ once = "sleeping"
    /\ Len(slept) < MaxRestarts
    /\ \A t \in timeout_total : clock + delay <= t
    /\ clock' = clock + delay
    /\ slept' = Append(slept, delay)
    /\ delay' = delay * 2
    /\ once' = "start"
    /\ UNCHANGED <<driver_vars, aggregation, responses, accumulated_state, returned,
                   folded, timing_vars, restrict_to, timeout_total, behaviour,
                   authorities_shuffled, futures, interval_age, authority_errors,
                   latest_failure, once_result, requested, abandoned>>

\* sleep(delay) returns, the delay is doubled up to its cap and the outer
\* loop starts over.
sleep_returns ==
    /\ once = "sleeping"
    /\ Len(slept) < MaxRestarts
    /\ \A t \in timeout_total : clock + delay <= t
    /\ clock' = clock + delay
    /\ slept' = Append(slept, delay)
    /\ delay' = Min(delay * 2, MaxDelay)
    /\ once' = "start"
    /\ UNCHANGED <<driver_vars, aggregation, responses, accumulated_state, returned,
                   folded, timing_vars, restrict_to, timeout_total, behaviour,
                   authorities_shuffled, futures, interval_age, authority_errors, latest_failure,
                   once_result, requested, abandoned>>

\* timeout(t, fut) elapses: the error of the call is made from what
\* authority_errors holds.
total_timeout_elapses ==
    /\ once \in {"start", "requesting", "sleeping"}
    /\ \E t \in timeout_total :
          /\ clock = t \/ (once = "sleeping" /\ clock + delay > t)
          /\ clock' = t
    /\ once' = "done"
    /\ once_result' =
          IF DOMAIN authority_errors = {}
          THEN {[is_ok |-> FALSE, error |-> "TimeoutError"]}
          ELSE {[is_ok |-> FALSE, error |-> "TooManyIncorrectAuthorities",
                 errors |-> authority_errors]}
    /\ UNCHANGED <<driver_vars, aggregation, responses, accumulated_state, returned,
                   folded, timing_vars, restrict_to, timeout_total, behaviour,
                   authorities_shuffled, futures, interval_age, delay,
                   authority_errors, latest_failure, requested, abandoned, slept>>

StartCycle ==
    \E order \in Orders(shuffle_by_stake(validators, restrict_to)) : start_cycle(order)

RequestSucceeds == \E name \in Authorities : request_succeeds(name)

RequestErrors == \E name \in Authorities : request_errors(name)

RequestTimesOut == \E name \in Authorities : request_times_out(name)

QuorumOnceNext ==
    \/ StartCycle
    \/ start_next
    \/ RequestSucceeds
    \/ RequestErrors
    \/ RequestTimesOut
    \/ second_passes
    \/ sleep_returns
    \/ total_timeout_elapses

QuorumOnceSpec == QuorumOnceInit /\ [][QuorumOnceNext]_vars

(***************************************************************************)
(* EffectsStakeMap on its own: signed effects of the authorities of a       *)
(* committee are added one at a time, each authority at most once with its  *)
(* committee weight, in any order and with no reducer to stop the adding.   *)
(* Every aggregation call adds to its map along a prefix of such a run.     *)
(***************************************************************************)
EffectsMapInit ==
    /\ now = 0
    /\ validators \in AggregatorCommittees
    /\ loaded = {}
    /\ bookkeeping = <<>>
    /\ reconfig = <<>>
    /\ attempt = <<>>
    /\ max_retry_times = MaxRetryTimes
    /\ ask = <<>>
    /\ task_queue = <<>>
    /\ running = {}
    /\ sleeping = {}
    /\ notifier = [d \in Digests |-> {}]
    /\ tickets = <<>>
    /\ effects_channel = <<>>
    /\ requests = {}
    /\ history = <<>>
    /\ aggregation = "EffectsStakeMap"
    /\ responses = shuffle_by_stake(validators, {})
    /\ accumulated_state = EmptyEffectsStakeMap
    /\ returned = {}
    /\ folded = <<>>
    /\ current_timeout = PreQuorumTimeout
    /\ waited = 0
    /\ elapsed = 0
    /\ OnceIdle

\* effects_map.add(effects, weight, committee) for the effects `name` signed.
effects_map_add(name, effects) ==
    LET r == EffectsStakeMap_add(accumulated_state, effects, name,
                                 weight(validators, name), validators)
    IN  /\ aggregation = "EffectsStakeMap"
        /\ name \in responses
        /\ responses' = responses \ {name}
        /\ accumulated_state' = r.map
        /\ folded' = Append(folded, [name |-> name, effects |-> effects,
                                     reached |-> r.reached, state |-> r.map])
        /\ UNCHANGED <<driver_vars, once_vars, aggregation, returned, timing_vars>>

EffectsMapNext ==
    \E name \in Authorities : \E key \in {1, 0} \X {"D1", "D2"} :
       effects_map_add(name, SignedEffects(key[1], key[2]))

EffectsMapSpec == EffectsMapInit /\ [][EffectsMapNext]_vars

(***************************************************************************)
(* Claims.                                                                  *)
(***************************************************************************)
Waiters == DOMAIN tickets

received(w) == tickets[w].received

\* The tasks of submission w that are queued, running or sleeping.
LiveTasks(w) ==
    {task_queue[i] : i \in {k \in DOMAIN task_queue : task_queue[k].waiter = w}}
    \cup {p.task : p \in {q \in running : q.task.waiter = w}}
    \cup {t \in sleeping : t.waiter = w}

\* C1: under the fairness of LiveSpec, the waiter of every submission
\* eventually holds exactly one result, and at no time holds two.
C1_ExactlyOneResult ==
    /\ [](\A w \in Waiters : Len(received(w)) <= 1)
    /\ [](tickets # <<>> => <>[](\A w \in Waiters : Len(received(w)) = 1))

\* C1 witness: a submission that succeeded on a retry.
C1_Witness ==
    \E w \in Waiters :
        /\ Len(received(w)) = 1
        /\ received(w)[1].is_ok
        /\ history[w].attempts >= 2

\* The terminal results a waiter can hold.
IsFailedAfterMaximumAttempts(r) == r.error = "FailedAfterMaximumAttempts"

\* The result of the last failed certification of submission w, if any.
LastCertificationFailure(w) ==
    IF history[w].last_failure = "certification" THEN history[w].last_result
    ELSE {}

HasEvidence(r) == DOMAIN r.conflicting_tx_digests # {}

\* The highest reporting stake among the conflicting digests of r.
BestStake(r) ==
    CHOOSE s \in {r.conflicting_tx_digests[d].total_stake :
                     d \in DOMAIN r.conflicting_tx_digests} :
        \A d \in DOMAIN r.conflicting_tx_digests :
            r.conflicting_tx_digests[d].total_stake <= s

\* The authorities that reported digest d in r.
Reporters(r, d) ==
    IF d \in DOMAIN r.conflicting_tx_digests
    THEN {r.conflicting_tx_digests[d].lock_records[i][1] :
             i \in DOMAIN r.conflicting_tx_digests[d].lock_records}
    ELSE {}

Validity == validity_threshold(validators)

\* C2: a submission is re-enqueued at most MaxRetryTimes times and processed
\* at most MaxRetryTimes + 1 times; when every attempt has failed with a
\* retryable error and no task of it is left, it was re-enqueued exactly
\* MaxRetryTimes times, processed MaxRetryTimes + 1 times, and its waiter holds
\* FailedAfterMaximumAttempts with total_attempts = the attempts performed;
\* a waiter that holds FailedAfterMaximumAttempts has no task left.
C2_RetriedExactlyMaxTimes ==
    \A w \in Waiters :
        /\ history[w].enqueued <= MaxRetryTimes
        /\ history[w].attempts <= MaxRetryTimes + 1
        /\ ( /\ history[w].attempts > 0
             /\ history[w].retryable = history[w].attempts
             /\ LiveTasks(w) = {} )
           => /\ history[w].enqueued = MaxRetryTimes
              /\ history[w].attempts = MaxRetryTimes + 1
              /\ received(w) = <<FailedAfterMaximumAttempts(history[w].attempts)>>
        /\ (\E i \in DOMAIN received(w) : IsFailedAfterMaximumAttempts(received(w)[i]))
           => /\ LiveTasks(w) = {}
              /\ history[w].retryable = history[w].attempts
              /\ received(w) = <<FailedAfterMaximumAttempts(history[w].attempts)>>

\* C2 witness: the budget is used up and the waiter was told so.
C2_Witness ==
    \E w \in Waiters :
        /\ received(w) = <<FailedAfterMaximumAttempts(MaxRetryTimes + 1)>>
        /\ history[w].enqueued = MaxRetryTimes
        /\ history[w].retryable = MaxRetryTimes + 1

\* C3: a task with retry count k > 0 was created at a retryable failure of the
\* task with count k - 1 and has next_retry_after = time of that failure +
\* 200ms * 2^(k-1); no task is being processed that was started before its
\* next_retry_after.
C3_DoublingBackoff ==
    \A w \in Waiters :
        /\ \A t \in LiveTasks(w) :
              t.retry_times > 0 =>
                 /\ t.retry_times = history[w].retryable
                 /\ t.next_retry_after * BackoffBaseMs =
                       history[w].failed_at * BackoffBaseMs
                       + 200 * Pow2(t.retry_times - 1)
        /\ \A q \in running :
              q.task.waiter = w => history[w].started_at >= q.task.next_retry_after

\* C3 witness: the second retry is being processed; it waited twice the first
\* delay.
C3_Witness ==
    \E q \in running :
        /\ q.task.retry_times = 2
        /\ q.task.next_retry_after = history[q.task.waiter].failed_at + 2
        /\ now >= q.task.next_retry_after

\* C4: at most one certificate is obtained for a submission; every task of it
\* that is queued or sleeping carries exactly the certificate obtained so far
\* (none after certification failures only); a task that carries a certificate
\* runs the execution step only, and certification runs only while no
\* certificate was obtained.
C4_CertificationNotRepeated ==
    \A w \in Waiters :
        /\ Cardinality(history[w].obtained) <= 1
        /\ \A i \in DOMAIN task_queue :
              task_queue[i].waiter = w => task_queue[i].tx_cert = history[w].obtained
        /\ \A t \in sleeping : t.waiter = w => t.tx_cert = history[w].obtained
        /\ \A q \in running :
              q.task.waiter = w =>
                 /\ q.tx_cert = history[w].obtained
                 /\ q.pc = "process_transaction" => history[w].obtained = {}
                 /\ q.task.tx_cert # {} => q.pc = "process_certificate"
                 /\ history[w].obtained # {} => q.pc = "process_certificate"

\* C4 witness: a retry that carries the certificate is in the execution step.
C4_Witness ==
    \E q \in running :
        /\ q.task.tx_cert # {}
        /\ q.task.retry_times >= 1
        /\ q.pc = "process_certificate"
        /\ history[q.task.waiter].certifications = 1

\* A step in which an attempt of submission w fails in the execution step, or
\* in certification without conflicting-transaction evidence.
FailsWithoutEvidence(w) ==
    /\ history'[w].failures = history[w].failures + 1
    /\ \/ history'[w].last_failure = "execution"
       \/ /\ history'[w].last_failure = "certification"
          /\ \A r \in history'[w].last_result : ~HasEvidence(r)

\* A step that re-enqueues submission w with the next retry count and notifies
\* nobody.
Reenqueues(w) ==
    /\ tickets' = tickets
    /\ \E t \in sleeping' \ sleeping :
          /\ t.waiter = w
          /\ t.retry_times = history[w].retryable + 1

\* C5: a failure of the execution step, and a certification failure without
\* conflicting-transaction evidence, notifies nobody and re-enqueues the task
\* while fewer than MaxRetryTimes retries were made; with the budget used up
\* the waiter receives FailedAfterMaximumAttempts.
C5_FailuresWithoutEvidenceRetry ==
    [][\A w \in Waiters :
          FailsWithoutEvidence(w) =>
             IF history[w].retryable < MaxRetryTimes
             THEN Reenqueues(w)
             ELSE /\ tickets'[w].received =
                        <<FailedAfterMaximumAttempts(MaxRetryTimes + 1)>>
                  /\ sleeping' = sleeping]_vars

\* C5 witness: a certification failure without evidence was followed by a
\* re-enqueue, and an execution failure likewise.
C5_Witness ==
    \E w \in Waiters :
        /\ history[w].last_failure = "execution"
        /\ history[w].certifications >= 2
        /\ received(w) = <<>>
        /\ \E t \in sleeping : t.waiter = w /\ t.tx_cert # {}

\* The last certification of w failed with evidence, the original
\* transaction's good_stake reaching validity_threshold and the best
\* conflicting candidate staying below it.
GoodStakeAloneValid(w, r) ==
    /\ r \in LastCertificationFailure(w)
    /\ HasEvidence(r)
    /\ r.good_stake >= Validity
    /\ BestStake(r) < Validity

\* C6 as claimed: after such a failure the submission is not terminated: a
\* task of it is queued, running or sleeping, unless the retries are used up.
C6_OriginalReenqueued ==
    \A w \in Waiters : \A r \in history[w].last_result :
        GoodStakeAloneValid(w, r) =>
           \/ LiveTasks(w) # {}
           \/ received(w) = <<FailedAfterMaximumAttempts(MaxRetryTimes + 1)>>

\* C6 amended: after such a failure no conflicting transaction is chased, the
\* task is not re-enqueued, and the waiter holds ObjectsDoubleUsed with the
\* conflicting digests and no retried transaction.
C6_TerminatedWithoutChasing ==
    \A w \in Waiters : \A r \in history[w].last_result :
        GoodStakeAloneValid(w, r) =>
           /\ received(w) = <<ObjectsDoubleUsed(r.conflicting_tx_digests, {}, {})>>
           /\ LiveTasks(w) = {}
           /\ history[w].attempted = {}
           /\ requests = {}

\* C6 witness: two authorities signed, the other two each reported a different
\* conflicting transaction.
C6_Witness ==
    \E w \in Waiters : \E r \in history[w].last_result :
        /\ GoodStakeAloneValid(w, r)
        /\ Cardinality(DOMAIN r.conflicting_tx_digests) = 2
        /\ Len(received(w)) = 1

\* Equivocation: both stakes reach validity_threshold.
Equivocation(w, r) ==
    /\ r \in LastCertificationFailure(w)
    /\ HasEvidence(r)
    /\ r.good_stake >= Validity
    /\ BestStake(r) >= Validity

\* C7: on equivocation no request is made for a conflicting transaction, no
\* task of the submission is left, and the waiter holds one ObjectsDoubleUsed
\* with the conflicting digests and retried_tx = None.
C7_EquivocationNotRetried ==
    \A w \in Waiters : \A r \in history[w].last_result :
        Equivocation(w, r) =>
           /\ received(w) = <<ObjectsDoubleUsed(r.conflicting_tx_digests, {}, {})>>
           /\ LiveTasks(w) = {}
           /\ history[w].attempted = {}
           /\ history[w].executions = 0
           /\ requests = {}

\* C7 witness: equivocation was declared and reported.
C7_Witness ==
    \E w \in Waiters : \E r \in history[w].last_result :
        /\ Equivocation(w, r)
        /\ Len(received(w)) = 1
        /\ received(w)[1].error = "ObjectsDoubleUsed"

\* The last certification of w failed with evidence, good_stake below
\* validity_threshold and the best candidate's stake at or above it.
ConflictingWorthRetrying(w, r) ==
    /\ r \in LastCertificationFailure(w)
    /\ HasEvidence(r)
    /\ r.good_stake < Validity
    /\ BestStake(r) >= Validity

\* C8: a conflicting transaction is attempted exactly when the last
\* certification failed with evidence, good_stake < validity_threshold and the
\* highest reporting stake >= validity_threshold; the digest attempted has the
\* highest reporting stake, it is the only one, and without an attempt nothing
\* is fetched or executed.
C8_OnlyBestCandidateAttempted ==
    \A w \in Waiters :
        /\ history[w].attempted # {}
              <=> \E r \in history[w].last_result : ConflictingWorthRetrying(w, r)
        /\ Cardinality(history[w].attempted) <= 1
        /\ \A d \in history[w].attempted : \A r \in history[w].last_result :
              /\ d \in DOMAIN r.conflicting_tx_digests
              /\ r.conflicting_tx_digests[d].total_stake = BestStake(r)
        /\ \A q \in requests : q.tx_digest \in history[w].attempted
        /\ history[w].attempted = {} =>
              /\ history[w].executions = 0
              /\ history[w].fetched = {}

\* C8 witness: two conflicting digests were reported and the one with the
\* higher stake, the later one in digest order, was attempted.
C8_Witness ==
    \E w \in Waiters : \E r \in history[w].last_result :
        /\ DOMAIN r.conflicting_tx_digests = {"T2", "T3"}
        /\ r.conflicting_tx_digests["T2"].total_stake
              < r.conflicting_tx_digests["T3"].total_stake
        /\ history[w].attempted = {"T3"}
        /\ requests # {}

\* The case of C9: good_stake = validity_threshold - 1, a conflicting
\* transaction reported by stake >= validity_threshold, and the submission
\* has ended.
OneShortOfValidity(w, r) ==
    /\ ConflictingWorthRetrying(w, r)
    /\ r.good_stake = Validity - 1
    /\ LiveTasks(w) = {}

\* C9 as claimed: the conflicting transaction was executed exactly once, and
\* the waiter holds ObjectsDoubleUsed naming it and the outcome of that
\* execution.
C9_OriginalExecutedOnce ==
    \A w \in Waiters : \A r \in history[w].last_result :
        OneShortOfValidity(w, r) =>
           /\ history[w].executions = 1
           /\ history[w].attempted # {}
           /\ history[w].success # {}
           /\ received(w) = <<ObjectsDoubleUsed(r.conflicting_tx_digests,
                                  history[w].attempted, history[w].success)>>

\* C9 amended: the conflicting transaction is fetched; when the fetch fails
\* nothing is executed and the waiter holds ObjectsDoubleUsed with
\* retried_tx = None; otherwise it was executed exactly once and the waiter
\* holds ObjectsDoubleUsed naming it and the outcome of that execution.
C9_ExecutedOnceIfFetched ==
    \A w \in Waiters : \A r \in history[w].last_result :
        OneShortOfValidity(w, r) =>
           /\ history[w].attempted # {}
           /\ history[w].fetched # {}
           /\ IF history[w].fetched = {"error"}
              THEN /\ history[w].executions = 0
                   /\ history[w].success = {}
                   /\ received(w) =
                         <<ObjectsDoubleUsed(r.conflicting_tx_digests, {}, {})>>
              ELSE /\ history[w].executions = 1
                   /\ history[w].success # {}
                   /\ received(w) =
                         <<ObjectsDoubleUsed(r.conflicting_tx_digests,
                               history[w].attempted, history[w].success)>>

\* C9 witness: one authority signed, three reported T2, T2 was fetched in its
\* signed form and its execution succeeded.
C9_Witness ==
    \E w \in Waiters : \E r \in history[w].last_result :
        /\ OneShortOfValidity(w, r)
        /\ r.good_stake = 1
        /\ DOMAIN r.conflicting_tx_digests = {"T2"}
        /\ r.conflicting_tx_digests["T2"].total_stake = 3
        /\ history[w].fetched = {"signed"}
        /\ received(w) = <<ObjectsDoubleUsed(r.conflicting_tx_digests, {"T2"}, {TRUE})>>

\* The authorities that reported the conflicting transaction d to the
\* certification of some submission.
ReportersOf(d) ==
    UNION {Reporters(r, d) : r \in UNION {history[w].last_result : w \in Waiters}}

\* C10 as claimed: every request made for a retried conflicting transaction
\* went to an authority that reported it.
C10_OriginalOnlyReporters ==
    \A q \in requests : q.authority \in ReportersOf(q.tx_digest)

\* C10 amended: the requests that fetch a retried conflicting transaction go
\* only to authorities that reported it; certifying and executing it is asked
\* of every authority of the committee.
C10_OnlyFetchRestricted ==
    \A q \in requests :
        /\ q.request = "transaction_info" => q.authority \in ReportersOf(q.tx_digest)
        /\ q.request \in {"transaction", "certificate"} =>
              \A a \in Authorities :
                 [q EXCEPT !.authority = a] \in requests

\* C10 witness: the conflicting transaction was fetched from a reporter and
\* its certificate sent to an authority that did not report it.
C10_Witness ==
    \E q1, q2 \in requests :
        /\ q1.request = "transaction_info"
        /\ q2.request = "certificate"
        /\ q1.tx_digest = q2.tx_digest
        /\ q2.authority \notin ReportersOf(q2.tx_digest)

\* C11: every result of a successful execution step was sent on the effects
\* channel exactly once and is what the waiter of its digest holds, whether
\* or not a receiver was subscribed; and nothing else was sent.
C11_SentOnceAndDelivered ==
    /\ \A w \in Waiters : \A i \in DOMAIN received(w) :
          received(w)[i].is_ok =>
             Cardinality({k \in DOMAIN effects_channel :
                             effects_channel[k].response = received(w)[i]}) = 1
    /\ \A k \in DOMAIN effects_channel :
          \E w \in Waiters :
             /\ effects_channel[k].response.tx_cert # {}
             /\ \A x \in effects_channel[k].response.tx_cert :
                   x.digest = tickets[w].digest
             /\ effects_channel[k].response.effects_cert # {}
             /\ received(w) = <<effects_channel[k].response>>
    /\ Len(effects_channel) <= Len(tickets)

\* C11 witness: a result was delivered though no receiver was subscribed.
C11_Witness ==
    \E w \in Waiters : \E k \in DOMAIN effects_channel :
        /\ effects_channel[k].receivers = 0
        /\ received(w) = <<effects_channel[k].response>>
        /\ received(w)[1].is_ok

\* A response that carries a signature of the committee's epoch.
IsSignature(result) ==
    /\ result.is_ok
    /\ result.certified_transaction = {}
    /\ result.signed_transaction # {}
    /\ \A x \in result.signed_transaction : x.epoch = validators.epoch

\* The authorities whose signature was folded among the first i responses,
\* in the order they were folded.
SignersUpTo(i) ==
    LET sel == SelectSeq(SubSeq(folded, 1, i), LAMBDA e : IsSignature(e.result))
    IN  [k \in 1..Len(sel) |-> sel[k].name]

SignedStakeUpTo(i) ==
    SumStake(validators, {SignersUpTo(i)[k] : k \in DOMAIN SignersUpTo(i)})

\* A certificate process_transaction made itself, not one an authority
\* returned.
Synthesized(cert) == cert.signatures # <<"earlier">>

\* C12: in process_transaction, after the response that brings the stake of
\* the folded current-epoch signatures to quorum_threshold the state holds a
\* certificate made of exactly the signatures folded so far, in fold order,
\* and the reducer ends; below quorum_threshold it holds no certificate of
\* its own making.
C12_CertificateAtQuorum ==
    aggregation = "process_transaction" =>
       \A i \in DOMAIN folded :
          /\ ( /\ IsSignature(folded[i].result)
               /\ SignedStakeUpTo(i) >= quorum_threshold(validators) )
             => /\ folded[i].state.certificate =
                      {[digest |-> "T1", epoch |-> validators.epoch,
                        signatures |-> SignersUpTo(i)]}
                /\ folded[i].output = "End"
                /\ i = Len(folded)
          /\ SignedStakeUpTo(i) < quorum_threshold(validators)
             => \A cert \in folded[i].state.certificate : ~Synthesized(cert)

\* C12 witness: four equal authorities, one erred, then three signed; the
\* call returned a certificate of exactly the three signatures.
C12_Witness ==
    /\ aggregation = "process_transaction"
    /\ validators = GenesisCommittee
    /\ Len(folded) = 4
    /\ ~folded[1].result.is_ok
    /\ \E st \in returned : \E cert \in st.certificate :
          /\ Len(cert.signatures) = 3
          /\ cert.signatures = <<folded[2].name, folded[3].name, folded[4].name>>

\* A response that carries a certificate of the committee's epoch.
HasCurrentCertificate(result) ==
    /\ result.is_ok
    /\ result.certified_transaction # {}
    /\ \A x \in result.certified_transaction : x.epoch = validators.epoch

\* A response that carries a certificate of another epoch together with
\* signed effects of (epoch, digest) = key.
HasOldCertificateWithEffects(result, key) ==
    /\ result.is_ok
    /\ result.certified_transaction # {}
    /\ \E x \in result.certified_transaction : x.epoch # validators.epoch
    /\ \E e \in result.signed_effects : <<e.epoch, e.digest>> = key

EffectsKeys == {1, 0} \X {"D1", "D2"}

\* The stake of the authorities that, among the first i responses, returned a
\* certificate of another epoch with effects of `key`.
OldCertificateStakeUpTo(i, key) ==
    SumStake(validators,
             {folded[k].name : k \in {j \in 1..i :
                 HasOldCertificateWithEffects(folded[j].result, key)}})

\* C13: in process_transaction a response with a certificate of the
\* committee's epoch makes that certificate the result at once; a certificate
\* of another epoch is in the state only from a response whose signed
\* effects brought the stake behind one (epoch, effects digest), among
\* responses with such certificates, to quorum_threshold; before that such a
\* response leaves the state without certificate.
C13_CertificateEpoch ==
    aggregation = "process_transaction" =>
       \A i \in DOMAIN folded :
          /\ HasCurrentCertificate(folded[i].result)
             => /\ folded[i].state.certificate = folded[i].result.certified_transaction
                /\ folded[i].output = "End"
          /\ \A cert \in folded[i].state.certificate :
                (~Synthesized(cert) /\ cert.epoch # validators.epoch)
                => /\ cert \in folded[i].result.certified_transaction
                   /\ \E key \in EffectsKeys :
                         /\ HasOldCertificateWithEffects(folded[i].result, key)
                         /\ OldCertificateStakeUpTo(i, key)
                               >= quorum_threshold(validators)
          /\ \A key \in EffectsKeys :
                ( /\ HasOldCertificateWithEffects(folded[i].result, key)
                  /\ OldCertificateStakeUpTo(i, key) < quorum_threshold(validators) )
                => folded[i].state.certificate = {}

\* C13 witness: a certificate of another epoch was accepted after a response
\* with different effects had been folded.
C13_Witness ==
    /\ aggregation = "process_transaction"
    /\ \E st \in returned : \E cert \in st.certificate :
          cert.epoch # validators.epoch
    /\ \E i \in DOMAIN folded :
          HasOldCertificateWithEffects(folded[i].result, <<1, "D2">>)
    /\ \E i \in DOMAIN folded :
          HasOldCertificateWithEffects(folded[i].result, <<1, "D1">>)

\* A response to handle_transaction that is an error or cannot be used.
IsBadTransactionResponse(result) ==
    \/ ~result.is_ok
    \/ /\ ~HasCurrentCertificate(result)
       /\ ~(result.certified_transaction # {} /\ result.signed_effects # {})
       /\ ~IsSignature(result)

BadTransactionResponsesUpTo(i) ==
    {k \in 1..i : IsBadTransactionResponse(folded[k].result)}

BadTransactionStakeUpTo(i) ==
    SumStake(validators, {folded[k].name : k \in BadTransactionResponsesUpTo(i)})

LockConflictsUpTo(i, d) ==
    SelectSeq(SubSeq(folded, 1, i),
              LAMBDA e : \E err \in e.result.lock_conflict :
                            err.pending_transaction = d)

\* C15: after every response of process_transaction the conflicting
\* transactions recorded are exactly the pending transactions named by the
\* ObjectLockConflict responses folded so far; the record of each holds, in
\* fold order, one (authority, object reference) pair per response that named
\* it, no authority twice, and as total_stake the sum of the weights of these
\* authorities.
C15_ConflictRecords ==
    aggregation = "process_transaction" =>
       \A i \in DOMAIN folded :
          LET recorded == folded[i].state.conflicting_tx_digests
          IN  /\ DOMAIN recorded = {d \in Digests : LockConflictsUpTo(i, d) # <<>>}
              /\ \A d \in DOMAIN recorded :
                    LET reports == LockConflictsUpTo(i, d)
                        records == recorded[d].lock_records
                    IN  /\ Len(records) = Len(reports)
                        /\ \A k \in DOMAIN records :
                              /\ records[k][1] = reports[k].name
                              /\ \E err \in reports[k].result.lock_conflict :
                                    records[k][2] = err.obj_ref
                        /\ \A k, l \in DOMAIN records :
                              records[k][1] = records[l][1] => k = l
                        /\ recorded[d].total_stake =
                              SumStake(validators,
                                       {records[k][1] : k \in DOMAIN records})

\* C15 witness: under unequal stake, T2 was reported by two authorities of
\* stake 2 and 1 and T3 by a third.
C15_Witness ==
    /\ aggregation = "process_transaction"
    /\ validators = WeightedCommittee
    /\ \E i \in DOMAIN folded :
          LET recorded == folded[i].state.conflicting_tx_digests
          IN  /\ DOMAIN recorded = {"T2", "T3"}
              /\ Len(recorded["T2"].lock_records) = 2
              /\ recorded["T2"].total_stake = 3
              /\ recorded["T3"].total_stake = 1

\* The authorities that, among the first i responses, returned signed effects
\* of (epoch, digest) = key, in the order they were folded.
EffectsReportersUpTo(i, key) ==
    LET sel == SelectSeq(SubSeq(folded, 1, i),
                   LAMBDA e : /\ e.result.is_ok
                              /\ \E x \in e.result.signed_effects :
                                    <<x.epoch, x.digest>> = key)
    IN  [k \in 1..Len(sel) |-> sel[k].name]

EffectsStakeUpTo(i, key) ==
    SumStake(validators,
             {EffectsReportersUpTo(i, key)[k] : k \in DOMAIN EffectsReportersUpTo(i, key)})

\* C16: in process_certificate every entry of the effects map holds the stake
\* and the signatures of exactly the authorities that reported its (epoch,
\* effects digest); certified effects are in the state, and returned, only
\* for a key whose own stake is at least quorum_threshold, signed by exactly
\* the reporters of that key.
C16_EffectsQuorumPerKey ==
    aggregation = "process_certificate" =>
       \A i \in DOMAIN folded :
          LET map == folded[i].state.effects_map
          IN  /\ \A key \in DOMAIN map.effects_map :
                    /\ map.effects_map[key].stake = EffectsStakeUpTo(i, key)
                    /\ map.effects_map[key].signatures = EffectsReportersUpTo(i, key)
              /\ \A ec \in map.effects_cert :
                    /\ EffectsStakeUpTo(i, <<ec.epoch, ec.digest>>)
                          >= quorum_threshold(validators)
                    /\ ec.signatures = EffectsReportersUpTo(i, <<ec.epoch, ec.digest>>)
              /\ process_certificate_result(folded[i].state).effects_cert
                    = map.effects_cert
              /\ process_certificate_result(folded[i].state).is_ok
                    => \E key \in EffectsKeys :
                           EffectsStakeUpTo(i, key) >= quorum_threshold(validators)

\* C16 witness: effects D1 were certified by three authorities while a
\* fourth had reported D2.
C16_Witness ==
    /\ aggregation = "process_certificate"
    /\ validators = GenesisCommittee
    /\ \E st \in returned : \E ec \in st.effects_map.effects_cert :
          /\ ec.digest = "D1"
          /\ Len(ec.signatures) = 3
          /\ <<0, "D2">> \in DOMAIN st.effects_map.effects_map

\* The keys of a map whose stake is at least the quorum threshold.
KeysAtQuorum(map) ==
    {key \in DOMAIN map.effects_map :
        map.effects_map[key].stake >= quorum_threshold(validators)}

\* C17: while the signed effects of the authorities are added to an
\* EffectsStakeMap, each authority at most once with its committee weight, at
\* most one (epoch, effects digest) key ever reaches the quorum threshold, and
\* from the add that took a key there the map holds certified effects of that
\* key, whatever is added afterwards.
C17_OneKeyWins ==
    aggregation = "EffectsStakeMap" =>
       \A i \in DOMAIN folded :
          /\ Cardinality(UNION {KeysAtQuorum(folded[j].state) : j \in 1..i}) <= 1
          /\ \A j \in 1..i : \A key \in KeysAtQuorum(folded[j].state) :
                /\ folded[i].state.effects_cert # {}
                /\ \A ec \in folded[i].state.effects_cert :
                      <<ec.epoch, ec.digest>> = key

\* C17 witness: a key reached the quorum threshold with authorities still to
\* be added, and one of them then reported another digest.
C17_Witness ==
    /\ aggregation = "EffectsStakeMap"
    /\ \E i \in DOMAIN folded :
          /\ i < Len(folded)
          /\ folded[i].reached
          /\ folded[i + 1].effects.digest # folded[i].effects.digest
          /\ ~folded[i + 1].reached

\* The authorities that answered handle_certificate with signed effects of
\* the committee's epoch and the given digest.
ReturnedEffects(digest) ==
    {folded[i].name : i \in {k \in DOMAIN folded :
        folded[k].result = OkResponse({}, {}, {SignedEffects(0, digest)})}}

\* Two authorities at most returned D1, two at most returned D2, and no
\* authority answered anything else.
SplitEffects ==
    /\ aggregation = "process_certificate"
    /\ validators = GenesisCommittee
    /\ Cardinality(ReturnedEffects("D1")) <= 2
    /\ Cardinality(ReturnedEffects("D2")) <= 2
    /\ \A i \in DOMAIN folded :
          folded[i].name \in ReturnedEffects("D1") \cup ReturnedEffects("D2")

\* C18: with four authorities of stake 1, when two return signed effects of
\* digest D1 and the other two of digest D2, the reducer never ends the fold
\* and process_certificate, whatever the order of arrival and wherever the
\* timeout falls, returns no certified effects but the failure
\* QuorumFailedToExecuteCertificate.
C18_SplitEffectsFail ==
    SplitEffects =>
       /\ \A i \in DOMAIN folded : folded[i].output = "Continue"
       /\ \A st \in returned :
             /\ ~process_certificate_result(st).is_ok
             /\ process_certificate_result(st).effects_cert = {}
             /\ process_certificate_result(st).error
                   = {"QuorumFailedToExecuteCertificate"}

\* C18 witness: all four authorities answered, two with D1 and two with D2,
\* and the call returned.
C18_Witness ==
    /\ SplitEffects
    /\ Cardinality(ReturnedEffects("D1")) = 2
    /\ Cardinality(ReturnedEffects("D2")) = 2
    /\ responses = {}
    /\ returned # {}

\* The i-th response ended the fold at the bad-stake check: the reducer
\* returned End with neither a certificate nor certified effects in the state.
StoppedOnBadStake(i) ==
    /\ folded[i].output = "End"
    /\ IF aggregation = "process_transaction"
       THEN folded[i].state.certificate = {}
       ELSE folded[i].state.effects_map.effects_cert = {}

\* The largest stake any arrival order of the first i responses could have
\* gathered toward a quorum: behind the current-epoch signatures or behind
\* one (epoch, effects digest).
BestGoodStakeUpTo(i) ==
    LET stakes == IF aggregation = "process_transaction"
                  THEN {SignedStakeUpTo(i)} \cup
                       {OldCertificateStakeUpTo(i, key) : key \in EffectsKeys}
                  ELSE {EffectsStakeUpTo(i, key) : key \in EffectsKeys}
    IN  CHOOSE s \in stakes : \A t \in stakes : t <= s

\* C19: when process_transaction or process_certificate ends the fold at the
\* bad-stake check, the bad stake is above validity_threshold, the total stake
\* less the bad stake is below quorum_threshold, and neither the signatures
\* nor the effects of any one key among the folded responses amount to
\* quorum_threshold.
C19_AbortOnlyWhenQuorumImpossible ==
    aggregation \in {"process_transaction", "process_certificate"} =>
       \A i \in DOMAIN folded :
          StoppedOnBadStake(i) =>
             /\ folded[i].state.bad_stake > validity_threshold(validators)
             /\ total_votes(validators) - folded[i].state.bad_stake
                   < quorum_threshold(validators)
             /\ BestGoodStakeUpTo(i) < quorum_threshold(validators)
             /\ BestGoodStakeUpTo(i)
                   <= total_votes(validators) - folded[i].state.bad_stake

\* C19 witness: process_certificate in the weighted committee gathered stake 2
\* behind one effects digest and then stopped on bad stake 3.
C19_Witness ==
    /\ aggregation = "process_certificate"
    /\ validators = WeightedCommittee
    /\ folded # <<>>
    /\ StoppedOnBadStake(Len(folded))
    /\ BestGoodStakeUpTo(Len(folded)) = 2
    /\ folded[Len(folded)].state.bad_stake = 3
    /\ returned = {folded[Len(folded)].state}

\* C20: once reduce_result returned End for some authority's response, that
\* response is the last one folded and the state returned to the caller is the
\* state carried by that End, whichever of the outstanding authorities answer
\* afterwards.
C20_EndIsFinal ==
    aggregation \in {"process_transaction", "process_certificate"} =>
       \A i \in DOMAIN folded :
          folded[i].output = "End" =>
             /\ i = Len(folded)
             /\ returned = {folded[i].state}
             /\ accumulated_state = folded[i].state

\* C20 witness: the reducer ended the fold after two responses, and an
\* outstanding authority answered afterwards.
C20_Witness ==
    /\ aggregation \in {"process_transaction", "process_certificate"}
    /\ Len(folded) = 2
    /\ folded[2].output = "End"
    /\ returned = {folded[2].state}
    /\ Cardinality(responses) < Cardinality(Authorities) - 2

\* What the call returned is an error, not a state.
IsError(value) == "error" \in DOMAIN value

\* C21: in the map-then-reduce loop every response, an error included, is
\* handed to the reducer as a value with the weight of its authority; the
\* call returns an error only when the reducer returned one for the response
\* folded last, and that error is what the call returns; an authority's error
\* for which the reducer continued leaves the call running or returning the
\* accumulated state.
C21_OnlyReducerFails ==
    aggregation = "get_object_by_id" =>
       /\ \A i \in DOMAIN folded :
             /\ folded[i].weight = weight(validators, folded[i].name)
             /\ folded[i].output # "Err" =>
                   /\ Len(folded[i].state.responses) = i
                   /\ folded[i].state.responses[i] =
                         [name |-> folded[i].name, result |-> folded[i].result]
             /\ folded[i].output = "Err" =>
                   /\ i = Len(folded)
                   /\ ~folded[i].result.is_ok
                   /\ returned = {folded[i].state}
       /\ \A value \in returned :
             IsError(value) =>
                /\ folded # <<>>
                /\ folded[Len(folded)].output = "Err"
                /\ value = folded[Len(folded)].state

\* C21 witness: an authority's error was folded, the reducer continued, more
\* responses were folded and the call returned its state.
C21_Witness ==
    /\ aggregation = "get_object_by_id"
    /\ Len(folded) > 1
    /\ ~folded[1].result.is_ok
    /\ returned # {}
    /\ \A value \in returned :
          /\ ~IsError(value)
          /\ value.bad_weight > 0

\* The timeout in force after the first i responses were folded: the duration
\* of the latest ContinueWithTimeout among them, the initial timeout if none.
RECURSIVE TimeoutAfter(_)
TimeoutAfter(i) ==
    IF i = 0 THEN PreQuorumTimeout
    ELSE IF folded[i].output = "ContinueWithTimeout" THEN PostQuorumTimeout
    ELSE TimeoutAfter(i - 1)

\* The ticks spent waiting for the first i responses.
RECURSIVE WaitedUpTo(_)
WaitedUpTo(i) == IF i = 0 THEN 0 ELSE folded[i].waited + WaitedUpTo(i - 1)

\* The call returned although neither the reducer ended it nor every
\* authority had answered: its timeout elapsed.
ReturnedOnTimeout ==
    /\ returned # {}
    /\ Len(folded) < Cardinality(DOMAIN validators.voting_rights)
    /\ folded # <<>> => folded[Len(folded)].output \in {"Continue", "ContinueWithTimeout"}

\* C22: every wait for a response starts from zero and lasts at most the
\* timeout in force, which is the initial timeout until a ContinueWithTimeout
\* replaces it and then the replacement for every later wait; the time the
\* call has taken is the sum of its waits; and when a wait reaches the
\* timeout the call returns the state accumulated so far, not an error.
C22_TimeoutPerWait ==
    aggregation = "get_object_by_id" =>
       /\ \A i \in DOMAIN folded :
             /\ folded[i].timeout = TimeoutAfter(i - 1)
             /\ folded[i].waited <= folded[i].timeout
       /\ current_timeout = TimeoutAfter(Len(folded))
       /\ waited <= current_timeout
       /\ elapsed = WaitedUpTo(Len(folded)) + waited
       /\ ReturnedOnTimeout =>
             /\ waited = current_timeout
             /\ returned = {accumulated_state}
             /\ \A value \in returned : ~IsError(value)
             /\ accumulated_state = IF folded = <<>> THEN GetObjectByIDRequestState
                                    ELSE folded[Len(folded)].state

\* C22 witness: the reducer shortened the timeout, the shortened timeout
\* elapsed and the call returned its state, later than the initial timeout
\* after it began.
C22_Witness ==
    /\ aggregation = "get_object_by_id"
    /\ ReturnedOnTimeout
    /\ current_timeout = PostQuorumTimeout
    /\ waited = PostQuorumTimeout
    /\ elapsed > PreQuorumTimeout
    /\ \E i \in DOMAIN folded : folded[i].output = "Continue" /\ folded[i].waited > 0

\* The request to `name` is in flight and its successful response is there.
SuccessDue(name) ==
    /\ once = "requesting"
    /\ name \in DOMAIN futures
    /\ behaviour[name].ok
    /\ futures[name] = behaviour[name].latency

\* C23: as soon as the successful response of a request in flight is there
\* the call can return it, whatever else is in flight, whatever candidates
\* are left and however far timeout_total is; what the call returns as
\* success is the response of a request in flight, at the tick it completed.
C23_FirstSuccessReturns ==
    /\ \A name \in Authorities : SuccessDue(name) => ENABLED request_succeeds(name)
    /\ \A r \in once_result :
          r.is_ok =>
             /\ once = "done"
             /\ r.response \in DOMAIN futures
             /\ behaviour[r.response].ok
             /\ futures[r.response] = behaviour[r.response].latency
             /\ futures[r.response] <= PerRequestTimeout

\* C23 witness: the call returned the response of one request while another
\* request was still in flight without an answer, before timeout_total.
C23_Witness ==
    /\ \E r \in once_result :
          /\ r.is_ok
          /\ \E n \in DOMAIN futures :
                /\ n # r.response
                /\ futures[n] < behaviour[n].latency
                /\ futures[n] < PerRequestTimeout
    /\ \E t \in timeout_total : clock < t
    /\ clock > 0

\* C24, as the specification states it: a request that was started is dropped
\* only once it has answered or reached PerRequestTimeout, and the cycle is
\* left for the backoff sleep only with every candidate tried and no request
\* still in flight without its answer.  The loop breaks at the first event
\* that finds no candidate left, so this does not hold.
C24_RequestsRunToCompletion ==
    \A x \in abandoned :
       \/ x.age >= behaviour[x.name].latency
       \/ x.age >= PerRequestTimeout

\* The call has a timeout_total; `slow` answers successfully, but only after
\* more than PerRequestTimeout and less than timeout_total; every other
\* candidate answers with an error.
OneSlowAuthority(slow) ==
    /\ once # "idle"
    /\ timeout_total = {TotalTimeout}
    /\ slow \in DOMAIN behaviour
    /\ behaviour[slow].ok
    /\ behaviour[slow].latency > PerRequestTimeout
    /\ behaviour[slow].latency < TotalTimeout
    /\ \A n \in DOMAIN behaviour \ {slow} :
          ~behaviour[n].ok /\ behaviour[n].latency <= PerRequestTimeout

\* C25, as the specification states it: with one such slow authority the
\* call, when it is over, has returned that authority's answer.  The timeout
\* of each request precedes the answer, so this does not hold.
C25_SlowAnswerReturned ==
    \A slow \in Authorities :
       OneSlowAuthority(slow) /\ once = "done" =>
          once_result = {[is_ok |-> TRUE, response |-> slow]}

\* C25, amended: with one such slow authority the call never returns its
\* answer: a request to it ends as TimeoutError or is dropped in flight, and
\* the call ends when timeout_total elapses, with TooManyIncorrectAuthorities
\* holding the errors recorded, or with TimeoutError if none was.
C25_SlowAnswerNeverReturned ==
    \A slow \in Authorities :
       OneSlowAuthority(slow) =>
          /\ slow \in DOMAIN authority_errors => authority_errors[slow] = "TimeoutError"
          /\ \A x \in abandoned : x.name = slow => x.age <= PerRequestTimeout
          /\ once = "done" =>
                /\ clock = TotalTimeout
                /\ \E r \in once_result :
                      /\ ~r.is_ok
                      /\ r.error \in {"TooManyIncorrectAuthorities", "TimeoutError"}
                      /\ r.error = "TimeoutError" <=> DOMAIN authority_errors = {}

\* C25 witness: the request to the slow authority timed out, the other
\* candidate erred, and the call ended at timeout_total with both errors.
C25_Witness ==
    /\ OneSlowAuthority("a1")
    /\ clock = TotalTimeout
    /\ once_result = {[is_ok |-> FALSE, error |-> "TooManyIncorrectAuthorities",
                       errors |-> [n \in {"a1", "a2"} |->
                                     IF n = "a1" THEN "TimeoutError" ELSE "Error"]]}

\* The call was ended by timeout_total: it is over without a success and
\* without the error of an empty candidate list.
EndedByTotalTimeout ==
    /\ once = "done"
    /\ \E r \in once_result : ~r.is_ok /\ r.error # "Available authorities list is empty"

\* C26: when timeout_total elapses before any request succeeded, the call
\* returns TooManyIncorrectAuthorities with the latest error or timeout of
\* each authority that failed, if any failure was recorded, and TimeoutError
\* if none was.
C26_TotalTimeoutError ==
    EndedByTotalTimeout =>
       /\ timeout_total # {}
       /\ \A t \in timeout_total : clock = t
       /\ once_result =
             IF DOMAIN latest_failure = {}
             THEN {[is_ok |-> FALSE, error |-> "TimeoutError"]}
             ELSE {[is_ok |-> FALSE, error |-> "TooManyIncorrectAuthorities",
                    errors |-> latest_failure]}

\* C26 witness: a1, whose request may end by its timeout or by its error,
\* failed in more than one cycle, and the call ended at timeout_total carrying
\* the error as a1's failure.
C26_Witness ==
    /\ EndedByTotalTimeout
    /\ slept # <<>>
    /\ behaviour["a1"] = [latency |-> PerRequestTimeout, ok |-> FALSE]
    /\ \E r \in once_result :
          /\ r.error = "TooManyIncorrectAuthorities"
          /\ r.errors["a1"] = "Error"

\* C27: the sleep before the k-th restart of the candidate cycle lasts
\* min(2^(k-1), MaxDelay) seconds: one second at first, doubled after every
\* failed cycle, and never more than five minutes.
C27_BackoffDelay ==
    /\ \A k \in DOMAIN slept : slept[k] = Min(Pow2(k - 1), MaxDelay)
    /\ delay = Min(Pow2(Len(slept)), MaxDelay)
    /\ delay <= MaxDelay

\* C27 witness: the cycle was restarted ten times, and the tenth sleep was
\* the capped one.
C27_Witness ==
    /\ Len(slept) >= 10
    /\ slept[9] = 256
    /\ slept[10] = MaxDelay
    /\ once = "start"

\* C28: a call whose candidate set is empty after the restriction returns
\* the error of the empty list at once, with or without timeout_total: no
\* request is started, no time passes, nothing is slept and no cycle is
\* restarted.
C28_EmptyCandidatesFailAtOnce ==
    once # "idle" /\ shuffle_by_stake(validators, restrict_to) = {} =>
       /\ requested = {}
       /\ slept = <<>>
       /\ clock = 0
       /\ once = "start" \/ once = "done"
       /\ once = "start" => ENABLED StartCycle
       /\ once = "done" =>
             once_result = {[is_ok |-> FALSE,
                             error |-> "Available authorities list is empty"]}

\* C28 witness: a call with a timeout_total and an empty restriction has
\* returned.
C28_Witness ==
    /\ restrict_to = {{}}
    /\ timeout_total = {TotalTimeout}
    /\ once = "done"
    /\ once_result # {}

\* C29: update_validators replaces the committee and the clients as one
\* snapshot.  A call takes the snapshot current when it starts; from then on
\* update_validators does not touch what the call holds, and every response
\* is folded with the weight and the thresholds of that snapshot, asked of
\* its authorities only.
C29_CallKeepsItsSnapshot ==
    /\ [](aggregation # "idle" =>
            \E self \in loaded :
               /\ loaded = {self}
               /\ responses \subseteq shuffle_by_stake(self, {})
               /\ \A i \in DOMAIN folded :
                     LET f == folded[i]
                         before == IF i = 1 THEN InitialState(aggregation)
                                   ELSE folded[i - 1].state
                         r == reduce_result(aggregation, self, "T1", before,
                                            f.name, weight(self, f.name), f.result)
                     IN  /\ f.name \in shuffle_by_stake(self, {})
                         /\ f.weight = weight(self, f.name)
                         /\ f.output = r.output
                         /\ f.state = r.state)
    /\ [][/\ aggregation = "idle" /\ aggregation' # "idle" => loaded' = {validators}
          /\ aggregation # "idle" => loaded' = loaded /\ aggregation' = aggregation]_vars

\* C29 witness: update_validators has run since the call loaded its
\* snapshot, and the call, still in progress, has folded a1's response with
\* a1's weight in what it loaded.
C29_Witness ==
    /\ aggregation # "idle"
    /\ loaded = {GenesisCommittee}
    /\ validators = WeightedCommittee
    /\ returned = {}
    /\ Len(folded) >= 2
    /\ folded[Len(folded)].name = "a1"
    /\ folded[Len(folded)].weight = 1

\* C30: for a committee of total stake T >= 1 the quorum threshold is
\* floor(2T/3) + 1 and the validity threshold floor(T/3) + 1; the two
\* together exceed T, and the quorum threshold is within 1 of twice the
\* validity threshold less one.
C30_ThresholdArithmetic ==
    aggregation = "process_transaction" =>
       LET T == total_votes(validators)
           Q == accumulated_state.threshold
           V == accumulated_state.validity
       IN  /\ T >= 1
           /\ Q = (2 * T) \div 3 + 1
           /\ V = T \div 3 + 1
           /\ Q + V > T
           /\ Q - (2 * V - 1) \in {-1, 0, 1}

\* C30 witness: the thresholds of the smallest committee, one authority of
\* stake 1, have been read: both are 1.
C30_Witness ==
    /\ aggregation = "process_transaction"
    /\ total_votes(validators) = 1
    /\ accumulated_state.threshold = 1
    /\ accumulated_state.validity = 1

\* C31: authorty_ask_for_cert_with_retry_and_timeout asks the local
\* authority before every attempt on the network: an iteration sends
\* requests only after the local answer of that iteration, and only if that
\* answer held no certificate; an iteration whose local answer holds a
\* certificate is the last one, and the call returns it.
C31_LocalCheckFirst ==
    ask # <<>> =>
       /\ \A r \in requests :
             /\ r.iteration \in DOMAIN ask.local
             /\ ask.local[r.iteration] # "certificate"
       /\ \A i \in DOMAIN ask.local :
             ask.local[i] = "certificate" =>
                /\ i = Len(ask.local)
                /\ ask.pc = "returned"
                /\ ask.result = {[is_ok |-> TRUE, cert |-> LocalCertificate]}
       /\ Len(ask.local) \in {ask.iteration - 1, ask.iteration}
       /\ ask.pc \in {"process_transaction", "sleep"} => Len(ask.local) = ask.iteration

\* C31 witness: the network was asked twice without success, and in the
\* third iteration the local authority had the certificate.
C31_Witness ==
    /\ ask # <<>>
    /\ ask.pc = "returned"
    /\ ask.iteration = 3
    /\ ask.local[3] = "certificate"
    /\ {r.iteration : r \in requests} = {1, 2}

\* C32: every task placed in the queue has retry_times <= max_retry_times;
\* a task waiting in the queue has been processed retry_times times before,
\* whichever of the two steps failed each time, and no submission is
\* processed more than max_retry_times + 1 times.
C32_AttemptsBounded ==
    /\ \A i \in DOMAIN task_queue :
          /\ task_queue[i].retry_times <= MaxRetryTimes
          /\ history[task_queue[i].waiter].attempts = task_queue[i].retry_times
    /\ \A task \in sleeping : task.retry_times <= MaxRetryTimes
    /\ \A p \in running : history[p.task.waiter].attempts = p.task.retry_times + 1
    /\ \A w \in DOMAIN history : history[w].attempts <= MaxRetryTimes + 1

\* C32 witness: a submission was processed max_retry_times + 1 times, a
\* certification failed first and the execution failed last, and the waiter
\* was told of the failure.
C32_Witness ==
    \E w \in DOMAIN history :
       /\ history[w].attempts = MaxRetryTimes + 1
       /\ history[w].certifications >= 2
       /\ history[w].last_failure = "execution"
       /\ tickets[w].received = <<FailedAfterMaximumAttempts(MaxRetryTimes + 1)>>

\* The sum of f over the keys of S.
RECURSIVE SumOver(_, _)
SumOver(f, S) ==
    IF S = {} THEN 0
    ELSE LET k == CHOOSE x \in S : TRUE IN f[k] + SumOver(f, S \ {k})

\* The stake held by the entries of an effects map, and by the records of
\* conflicting transactions.
EffectsMapStake(state) ==
    SumOver([k \in DOMAIN state.effects_map.effects_map |->
                state.effects_map.effects_map[k].stake],
            DOMAIN state.effects_map.effects_map)

ConflictingStake(state) ==
    SumOver([d \in DOMAIN state.conflicting_tx_digests |->
                state.conflicting_tx_digests[d].total_stake],
            DOMAIN state.conflicting_tx_digests)

\* The state before the i-th fold.
StateBefore(i) == IF i = 1 THEN ProcessTransactionState ELSE folded[i - 1].state

\* C33: in a process_transaction run no authority is folded twice; each fold
\* adds the authority's weight to at most one of good_stake, bad_stake and
\* the effects map and leaves the other two alone; good_stake + bad_stake
\* stays within the total stake of the committee; the stakes of the records
\* of conflicting transactions sum to no more than bad_stake.
C33_WeightCountedOnce ==
    aggregation = "process_transaction" =>
       /\ \A i, j \in DOMAIN folded : folded[i].name = folded[j].name => i = j
       /\ \A i \in DOMAIN folded :
             LET before == StateBefore(i)
                 after == folded[i].state
                 good == after.good_stake - before.good_stake
                 bad == after.bad_stake - before.bad_stake
                 eff == EffectsMapStake(after) - EffectsMapStake(before)
                 w == weight(validators, folded[i].name)
             IN  /\ {good, bad, eff} \subseteq {0, w}
                 /\ good + bad + eff \in {0, w}
                 /\ ConflictingStake(after) - ConflictingStake(before) \in {0, bad}
       /\ accumulated_state.good_stake + accumulated_state.bad_stake
             + EffectsMapStake(accumulated_state)
             <= SumOver(validators.voting_rights,
                        {folded[i].name : i \in DOMAIN folded})
       /\ accumulated_state.good_stake + accumulated_state.bad_stake
             <= SumOver(validators.voting_rights, Authorities)
       /\ ConflictingStake(accumulated_state) <= accumulated_state.bad_stake

\* C33 witness: every authority of the weighted committee was folded, one
\* into good_stake, one into the effects map, one as a lock conflict and one
\* as another error.
C33_Witness ==
    /\ aggregation = "process_transaction"
    /\ validators = WeightedCommittee
    /\ Len(folded) = Cardinality(Authorities)
    /\ accumulated_state.good_stake > 0
    /\ EffectsMapStake(accumulated_state) > 0
    /\ ConflictingStake(accumulated_state) > 0
    /\ accumulated_state.bad_stake > ConflictingStake(accumulated_state)

\* C34: every task in the queue is eligible (now >= next_retry_after) from
\* the moment it is enqueued, so the dispatcher's branch that puts a
\* dequeued task back is never enabled and every task it took was taken at
\* or after its next_retry_after; the queue stays within its capacity.
C34_DequeuedTasksEligible ==
    /\ \A i \in DOMAIN task_queue : task_queue[i].next_retry_after <= now
    /\ \A p \in running :
          p.task.next_retry_after <= history[p.task.waiter].started_at
    /\ ~ENABLED (/\ task_queue_processor
                 /\ running' = running
                 /\ history' = history)
    /\ Len(task_queue) <= TASK_QUEUE_SIZE

\* C34 witness: a retry that slept until a later next_retry_after was
\* enqueued again and taken by the dispatcher.
C34_Witness ==
    \E p \in running :
       /\ p.task.retry_times = MaxRetryTimes
       /\ p.task.next_retry_after > 0
       /\ history[p.task.waiter].started_at >= p.task.next_retry_after
       /\ history[p.task.waiter].enqueued = MaxRetryTimes

(***************************************************************************)
(* Two submissions to one driver.  Spec follows one submission; here a      *)
(* second caller submits while the first submission is in progress, either  *)
(* the same transaction or the transaction T2 that authorities may report   *)
(* as holding the locks.                                                     *)
(***************************************************************************)
ConcurrentTxs == {"T1", "T2"}

\* max_retry_times of the driver the two callers share.
ConcurrentRetryTimes == 1

\* The first caller submits T1; the second submits while T1 is unresolved.
SubmitConcurrently ==
    \/ /\ tickets = <<>>
       /\ submit_transaction("T1")
    \/ /\ Len(tickets) = 1
       /\ tickets[1].received = <<>>
       /\ \E transaction \in ConcurrentTxs : submit_transaction(transaction)

\* What decides the path process_task takes after process_transaction.
Outcome(c, result) ==
    <<result.is_ok, DOMAIN result.conflicting_tx_digests # {},
      {r.tx_digest : r \in attempt_conflicting_transactions_maybe(c,
                       result.good_stake, result.conflicting_tx_digests)}>>

\* One result of process_transaction for each path, the conflicting
\* transaction to retry being one a caller may have submitted.
RepresentativeResults ==
    [c \in Committees, tx \in Digests |->
        {CHOOSE r \in ProcessTransactionResults[c, tx] : Outcome(c, r) = o :
            o \in {x \in {Outcome(c, r) : r \in ProcessTransactionResults[c, tx]} :
                      x[3] \subseteq ConcurrentTxs}}]

ConcurrentProcessTransactionReturns ==
    \E p \in running :
       \E result \in RepresentativeResults[validators, p.task.transaction] :
          process_transaction_returns(p, result)

\* One result of process_certificate for each of success and failure.
RepresentativeCertificateResults ==
    [c \in Committees, tx \in Digests |->
        {CHOOSE r \in ProcessCertificateResults[c, tx] : r.is_ok = ok :
            ok \in {r.is_ok : r \in ProcessCertificateResults[c, tx]}}]

ConcurrentProcessCertificateReturns ==
    \E p \in running :
       \E result \in RepresentativeCertificateResults[validators, p.task.transaction] :
          \E receivers \in {0, MaxSubscribers} :
             process_certificate_returns(p, result, receivers)

\* Every candidate was asked before the fetch ended.
ConcurrentHandleTransactionInfoRequestReturns ==
    \E p \in running :
       \E found \in {"certificate", "signed", "error"} :
          handle_transaction_info_request_returns(p,
              transaction_info_candidates(validators, p.reporters), found)

ConcurrentNext ==
    \/ SubmitConcurrently
    \/ task_queue_processor
    \/ ConcurrentProcessTransactionReturns
    \/ ConcurrentHandleTransactionInfoRequestReturns
    \/ RetryProcessTransactionReturns
    \/ RetryProcessCertificateReturns
    \/ ConcurrentProcessCertificateReturns
    \/ SleepUntilReturns
    \/ Tick

\* The driver is built by new_with_max_retry_times(ConcurrentRetryTimes).
ConcurrentInit ==
    /\ now = 0
    /\ validators = GenesisCommittee
    /\ loaded = {}
    /\ bookkeeping = <<>>
    /\ reconfig = <<>>
    /\ attempt = <<>>
    /\ max_retry_times = ConcurrentRetryTimes
    /\ ask = <<>>
    /\ task_queue = <<>>
    /\ running = {}
    /\ sleeping = {}
    /\ notifier = [d \in Digests |-> {}]
    /\ tickets = <<>>
    /\ effects_channel = <<>>
    /\ requests = {}
    /\ history = <<>>
    /\ aggregation = "idle"
    /\ responses = {}
    /\ accumulated_state = <<>>
    /\ returned = {}
    /\ folded = <<>>
    /\ current_timeout = PreQuorumTimeout
    /\ waited = 0
    /\ elapsed = 0
    /\ OnceIdle

ConcurrentSpec == ConcurrentInit /\ [][ConcurrentNext]_vars

\* The steps of attempt_one_conflicting_transaction.
RetrySteps ==
    {"handle_transaction_info_request", "retry_process_transaction",
     "retry_process_certificate"}

\* C35: a step of the retry of a conflicting transaction sends nothing on
\* the effects channel and delivers nothing to a waiter of another digest
\* than the original transaction's; what the waiters of the original
\* transaction receive when the retry ends is ObjectsDoubleUsed.
C35_RetryLeavesOutputsAlone ==
    [][\A p \in running :
          (p.pc \in RetrySteps /\ p \notin running') =>
             /\ effects_channel' = effects_channel
             /\ \A w \in DOMAIN tickets :
                   \/ tickets'[w] = tickets[w]
                   \/ /\ tickets[w].digest = p.task.transaction
                      /\ \E e \in {ObjectsDoubleUsed(p.conflicting_txes, d, ok) :
                                      d \in SUBSET p.retried, ok \in SUBSET BOOLEAN} :
                            tickets'[w].received = Append(tickets[w].received, e)
             /\ \A d \in Digests \ {p.task.transaction} : notifier'[d] = notifier[d]]_vars

\* C35 witness: T2 was retried with success on behalf of T1 while a caller
\* waits for T2; T1's waiter holds ObjectsDoubleUsed, T2's waiter holds
\* nothing and nothing was sent on the effects channel.
C35_Witness ==
    /\ Len(tickets) = 2
    /\ tickets[2].digest = "T2"
    /\ tickets[2].received = <<>>
    /\ 2 \in notifier["T2"]
    /\ Len(tickets[1].received) = 1
    /\ tickets[1].received[1].error = "ObjectsDoubleUsed"
    /\ tickets[1].received[1].retried_tx = {"T2"}
    /\ tickets[1].received[1].retried_tx_success = {TRUE}
    /\ effects_channel = <<>>

\* C36: once the fetch of the conflicting transaction has failed, the
\* submission is over (no task of it is queued, sleeping or running), its
\* waiter holds exactly one result, ObjectsDoubleUsed with the conflicting
\* digests process_transaction of the aggregator reported and with neither
\* retried_tx nor retried_tx_success, and nothing was executed for the
\* conflicting transaction.
C36_FetchFailureEndsInDoubleUsed ==
    \A w \in DOMAIN history :
       history[w].fetched = {"error"} =>
          /\ \A i \in DOMAIN task_queue : task_queue[i].waiter # w
          /\ \A task \in sleeping : task.waiter # w
          /\ \A p \in running : p.task.waiter # w
          /\ w \notin notifier[tickets[w].digest]
          /\ \E result \in history[w].last_result :
                tickets[w].received =
                   <<ObjectsDoubleUsed(result.conflicting_tx_digests, {}, {})>>
          /\ \A r \in requests :
                r.tx_digest \in history[w].attempted => r.request = "transaction_info"

\* C36 witness: the reporters of T2 were asked for it, the fetch failed on
\* the first attempt and the waiter holds ObjectsDoubleUsed without a
\* retried transaction.
C36_Witness ==
    \E w \in DOMAIN history :
       /\ history[w].fetched = {"error"}
       /\ history[w].attempted = {"T2"}
       /\ history[w].attempts = 1
       /\ Cardinality({r \in requests : r.request = "transaction_info"}) >= 2
       /\ Len(tickets[w].received) = 1
       /\ tickets[w].received[1].error = "ObjectsDoubleUsed"
       /\ tickets[w].received[1].retried_tx = {}
       /\ DOMAIN tickets[w].received[1].conflicting_txes # {}

\* The tasks of the driver, wherever they are.
TasksAnywhere ==
    {task_queue[i] : i \in DOMAIN task_queue} \cup sleeping \cup
    {p.task : p \in running}

\* C37: with two submissions of one transaction each submission has its own
\* task (at most one per waiter), no waiter ever holds more than one result,
\* a waiter is pending exactly as long as it holds none, the waiters of one
\* digest that are resolved hold the same result, and a notification for a
\* digest without pending waiter changes neither tickets nor registry.
C37_EachWaiterOneResult ==
    /\ [](/\ \A t1, t2 \in TasksAnywhere : t1.waiter = t2.waiter => t1 = t2
          /\ \A w \in DOMAIN tickets :
                /\ Len(tickets[w].received) <= 1
                /\ (w \in notifier[tickets[w].digest]) <=> (tickets[w].received = <<>>)
          /\ \A w1, w2 \in DOMAIN tickets :
                (/\ tickets[w1].digest = tickets[w2].digest
                 /\ tickets[w1].received # <<>>
                 /\ tickets[w2].received # <<>>)
                => tickets[w1].received = tickets[w2].received)
    /\ [][\A p \in running :
             (p \notin running' /\ notifier[p.task.transaction] = {}
              /\ Len(tickets') = Len(tickets))
             => (tickets' = tickets /\ notifier' = notifier)]_vars

\* C37 witness: T1 was submitted twice, both tasks were taken by the
\* dispatcher, both waiters hold the one result of the task that ended
\* first and the other task has ended as well.
C37_Witness ==
    /\ Len(tickets) = 2
    /\ tickets[1].digest = "T1" /\ tickets[2].digest = "T1"
    /\ history[1].attempts >= 1 /\ history[2].attempts >= 1
    /\ Len(tickets[1].received) = 1
    /\ tickets[2].received = tickets[1].received
    /\ TasksAnywhere = {}

(***************************************************************************)
(* One processing attempt of a task for T1 while update_validators may run. *)
(* Every self.validators.load() of the attempt is a read of `validators` at  *)
(* the moment the step runs; attempt.loads keeps what each read returned.    *)
(***************************************************************************)
\* The committee of the next epoch: every authority holds two votes.
NextEpochCommittee ==
    [epoch |-> 1, voting_rights |-> [a \in Authorities |-> 2]]

AttemptCommittees == {GenesisCommittee, NextEpochCommittee}

\* What decides the path of the attempt after process_transaction, under
\* either committee the decision may be taken with.
AttemptOutcome(result) ==
    <<result.is_ok, DOMAIN result.conflicting_tx_digests # {},
      [c \in AttemptCommittees |->
          {r.tx_digest : r \in attempt_conflicting_transactions_maybe(c,
                             result.good_stake, result.conflicting_tx_digests)}]>>

\* One result of the aggregator's process_transaction for each path.
AttemptResults ==
    [c \in AttemptCommittees |->
        {CHOOSE r \in process_transaction(c, "T1") : AttemptOutcome(r) = o :
            o \in {AttemptOutcome(r) : r \in process_transaction(c, "T1")}}]

Load(step) == [step |-> step, committee |-> validators]

AttemptInit ==
    /\ now = 0
    /\ validators \in AttemptCommittees
    /\ loaded = {}
    /\ bookkeeping = <<>>
    /\ reconfig = <<>>
    /\ attempt = [pc |-> "process_task", loads |-> <<>>, result |-> {},
                  retried |-> {}, ended |-> ""]
    /\ reconfig = <<>>
    /\ max_retry_times = MaxRetryTimes
    /\ ask = <<>>
    /\ task_queue = <<>>
    /\ running = {}
    /\ sleeping = {}
    /\ notifier = [d \in Digests |-> {}]
    /\ tickets = <<>>
    /\ effects_channel = <<>>
    /\ requests = {}
    /\ history = <<>>
    /\ aggregation = "idle"
    /\ responses = {}
    /\ accumulated_state = <<>>
    /\ returned = {}
    /\ folded = <<>>
    /\ current_timeout = PreQuorumTimeout
    /\ waited = 0
    /\ elapsed = 0
    /\ OnceIdle

attempt_frame ==
    UNCHANGED <<now, validators, loaded, bookkeeping, reconfig, max_retry_times, ask, task_queue, running,
                sleeping, notifier, tickets, effects_channel, requests, history,
                aggregation_vars>>

\* process_task with tx_cert None: QuorumDriver::process_transaction loads
\* the aggregator and calls its process_transaction.
attempt_process_transaction ==
    /\ attempt # <<>>
    /\ attempt.pc = "process_task"
    /\ attempt' = [attempt EXCEPT !.pc = "process_transaction",
                                  !.loads = Append(@, Load("process_transaction"))]
    /\ attempt_frame

\* The aggregator's process_transaction returns what the committee it was
\* called on makes of the answers.  Ok: process_certificate loads the
\* aggregator.  Conflicting transactions: attempt_conflicting_transactions_maybe
\* loads it for validity_threshold, and attempt_one_conflicting_transaction
\* loads it for the fetch.
attempt_process_transaction_returns(result) ==
    LET retry == attempt_conflicting_transactions_maybe(validators,
                     result.good_stake, result.conflicting_tx_digests)
    IN  /\ attempt # <<>>
        /\ attempt.pc = "process_transaction"
        /\ result \in AttemptResults[attempt.loads[1].committee]
        /\ attempt' =
             IF result.is_ok
             THEN [attempt EXCEPT !.pc = "process_certificate",
                                  !.result = {result},
                                  !.loads = Append(@, Load("process_certificate"))]
             ELSE IF DOMAIN result.conflicting_tx_digests = {}
             THEN [attempt EXCEPT !.pc = "done", !.result = {result},
                                  !.ended = "enqueue_again_maybe"]
             ELSE IF retry = {}
             THEN [attempt EXCEPT !.pc = "done", !.result = {result},
                                  !.ended = "ObjectsDoubleUsed",
                                  !.loads = Append(@, Load("validity_threshold"))]
             ELSE [attempt EXCEPT
                      !.pc = "handle_transaction_info_request",
                      !.result = {result},
                      !.retried = {r.tx_digest : r \in retry},
                      !.loads = Append(Append(@, Load("validity_threshold")),
                                       Load("handle_transaction_info_request"))]
        /\ attempt_frame

\* handle_transaction_info_request_from_some_validators returns: with a
\* certificate the aggregator is loaded for process_certificate, with a signed
\* transaction for execute_transaction.
attempt_transaction_info_returns(found) ==
    /\ attempt # <<>>
    /\ attempt.pc = "handle_transaction_info_request"
    /\ attempt' =
         IF found = "error"
         THEN [attempt EXCEPT !.pc = "done", !.ended = "ObjectsDoubleUsed"]
         ELSE IF found = "certificate"
         THEN [attempt EXCEPT !.pc = "retry",
                              !.loads = Append(@, Load("retry_process_certificate"))]
         ELSE [attempt EXCEPT !.pc = "retry",
                              !.loads = Append(@, Load("execute_transaction"))]
    /\ attempt_frame

\* The execution of the conflicting transaction returns.
attempt_retry_returns ==
    /\ attempt # <<>>
    /\ attempt.pc = "retry"
    /\ attempt' = [attempt EXCEPT !.pc = "done", !.ended = "ObjectsDoubleUsed"]
    /\ attempt_frame

\* The aggregator's process_certificate returns.
attempt_process_certificate_returns(is_ok) ==
    /\ attempt # <<>>
    /\ attempt.pc = "process_certificate"
    /\ attempt' = [attempt EXCEPT !.pc = "done",
                                  !.ended = IF is_ok THEN "Ok"
                                            ELSE "enqueue_again_maybe"]
    /\ attempt_frame

AttemptNext ==
    \/ \E new_validators \in AttemptCommittees : update_validators(new_validators)
    \/ attempt_process_transaction
    \/ \E c \in AttemptCommittees : \E result \in AttemptResults[c] :
          attempt_process_transaction_returns(result)
    \/ \E found \in {"certificate", "signed", "error"} :
          attempt_transaction_info_returns(found)
    \/ attempt_retry_returns
    \/ \E is_ok \in BOOLEAN : attempt_process_certificate_returns(is_ok)

AttemptSpec == AttemptInit /\ [][AttemptNext]_vars

\* C38: every load of the attempt returned the committee the first load
\* returned.
C38_OneSnapshotPerAttempt ==
    attempt # <<>> =>
       \A i \in DOMAIN attempt.loads :
          attempt.loads[i].committee = attempt.loads[1].committee

(***************************************************************************)
(* reconfig_from_genesis.  `reconfig` is the aggregator the function walks   *)
(* with: its committee, its authority_clients (the names it has a client     *)
(* for), and the function's locals.  chain[e] is the validator set of epoch  *)
(* e as the network reports it.                                              *)
(***************************************************************************)
\* The validator sets an epoch may have.
MemberSets == {S \in SUBSET Authorities : Cardinality(S) >= 3}

ReconfigInit ==
    /\ now = 0
    /\ validators = GenesisCommittee
    /\ loaded = {}
    /\ bookkeeping = <<>>
    /\ \E genesis \in MemberSets : \E latest \in 0..MaxEpoch :
          \E chain \in [1..latest -> MemberSets] :
             reconfig = [pc |-> "get_committee_with_net_addresses",
                         committee |-> [epoch |-> 0, members |-> genesis],
                         authority_clients |-> genesis,
                         chain |-> chain, cur_epoch |-> 1,
                         committee_store |-> {0}, fanouts |-> <<>>]
    /\ attempt = <<>>
    /\ max_retry_times = MaxRetryTimes
    /\ ask = <<>>
    /\ task_queue = <<>>
    /\ running = {}
    /\ sleeping = {}
    /\ notifier = [d \in Digests |-> {}]
    /\ tickets = <<>>
    /\ effects_channel = <<>>
    /\ requests = {}
    /\ history = <<>>
    /\ aggregation = "idle"
    /\ responses = {}
    /\ accumulated_state = <<>>
    /\ returned = {}
    /\ folded = <<>>
    /\ current_timeout = PreQuorumTimeout
    /\ waited = 0
    /\ elapsed = 0
    /\ OnceIdle

reconfig_frame ==
    UNCHANGED <<now, validators, loaded, bookkeeping, attempt, max_retry_times, ask, task_queue,
                running, sleeping, notifier, tickets, effects_channel, requests,
                history, aggregation_vars>>

\* The fan-out of quorum_map_then_reduce_with_timeout_and_prefs: one future
\* per name of committee.shuffle_by_stake, built with authority_clients[name].
Fanout(call) ==
    [call |-> call, committee |-> reconfig.committee.members,
     authority_clients |-> reconfig.authority_clients]

\* Indexing the BTreeMap by a name it does not hold panics.
IndexPanics == ~(reconfig.committee.members \subseteq reconfig.authority_clients)

\* fp_ensure(epoch == 0), then get_committee_with_net_addresses(0): a
\* get_object_by_id fan-out; is_ok is whether a quorum agreed on the latest
\* committee.
reconfig_get_latest(is_ok) ==
    /\ reconfig # <<>>
    /\ reconfig.pc = "get_committee_with_net_addresses"
    /\ reconfig' =
         IF IndexPanics
         THEN [reconfig EXCEPT !.pc = "panicked",
                               !.fanouts = Append(@, Fanout("get_object_by_id"))]
         ELSE IF ~is_ok
         THEN [reconfig EXCEPT !.pc = "failed",
                               !.fanouts = Append(@, Fanout("get_object_by_id"))]
         ELSE IF Len(reconfig.chain) = 0
         THEN [reconfig EXCEPT !.pc = "returned",
                               !.fanouts = Append(@, Fanout("get_object_by_id"))]
         ELSE [reconfig EXCEPT !.pc = "loop",
                               !.fanouts = Append(@, Fanout("get_object_by_id"))]
    /\ reconfig_frame

\* One turn of the loop below the break: get_committee_info(Some(cur_epoch))
\* fans out over aggregator.committee, the committee is inserted into the
\* store and assigned to aggregator.committee; authority_clients stays.
reconfig_loop(is_ok) ==
    /\ reconfig # <<>>
    /\ reconfig.pc = "loop"
    /\ reconfig.cur_epoch < Len(reconfig.chain)
    /\ reconfig' =
         IF IndexPanics
         THEN [reconfig EXCEPT !.pc = "panicked",
                               !.fanouts = Append(@, Fanout("get_committee_info"))]
         ELSE IF ~is_ok
         THEN [reconfig EXCEPT !.pc = "failed",
                               !.fanouts = Append(@, Fanout("get_committee_info"))]
         ELSE [reconfig EXCEPT
                  !.committee = [epoch |-> reconfig.cur_epoch,
                                 members |-> reconfig.chain[reconfig.cur_epoch]],
                  !.committee_store = @ \cup {reconfig.cur_epoch},
                  !.cur_epoch = @ + 1,
                  !.fanouts = Append(@, Fanout("get_committee_info"))]
    /\ reconfig_frame

\* cur_epoch >= latest_epoch: break, and recreate_with_net_addresses makes
\* the aggregator of the latest committee with clients for its members.
reconfig_recreate ==
    /\ reconfig # <<>>
    /\ reconfig.pc = "loop"
    /\ reconfig.cur_epoch >= Len(reconfig.chain)
    /\ reconfig' =
         IF reconfig.committee.epoch + 1 = Len(reconfig.chain)
         THEN [reconfig EXCEPT
                  !.pc = "returned",
                  !.committee = [epoch |-> Len(reconfig.chain),
                                 members |-> reconfig.chain[Len(reconfig.chain)]],
                  !.authority_clients = reconfig.chain[Len(reconfig.chain)],
                  !.committee_store = @ \cup {Len(reconfig.chain)}]
         ELSE [reconfig EXCEPT !.pc = "failed"]
    /\ reconfig_frame

ReconfigNext ==
    \/ \E is_ok \in BOOLEAN : reconfig_get_latest(is_ok)
    \/ \E is_ok \in BOOLEAN : reconfig_loop(is_ok)
    \/ reconfig_recreate

ReconfigSpec == ReconfigInit /\ [][ReconfigNext]_vars

\* C39: at every fan-out of the walk every member of the committee fanned
\* out to has a client, and no index panics.
C39_EveryMemberHasClient ==
    reconfig # <<>> =>
       /\ reconfig.pc # "panicked"
       /\ \A i \in DOMAIN reconfig.fanouts :
             reconfig.fanouts[i].committee \subseteq
                reconfig.fanouts[i].authority_clients

(***************************************************************************)
(* The arithmetic of enqueue_again_maybe at the width of its types:         *)
(* old_retry_times + 1 in u8, 200 * u64::pow(2, old_retry_times) in u64.    *)
(* A u64 value is kept as m * 2^e.  With overflow checks the build panics   *)
(* at an overflow, without them the result wraps.                           *)
(***************************************************************************)
U8Max == 255

U64Bits == 64

\* m * 2^e < 2^64, for m < 2^30.
FitsU64(m, e) ==
    \/ m = 0
    \/ /\ e < U64Bits
       /\ (U64Bits - e > 30 \/ m < Pow2(U64Bits - e))

\* m * 2^e modulo 2^64, again as a mantissa and an exponent.
WrapU64(m, e) ==
    IF m = 0 \/ e >= U64Bits THEN [m |-> 0, e |-> 0]
    ELSE IF U64Bits - e > 30 THEN [m |-> m, e |-> e]
    ELSE [m |-> m % Pow2(U64Bits - e), e |-> e]

\* u64::pow(2, k), and 200 * p for p = m * 2^e (200 = 25 * 2^3).
u64_pow2(k) == [m |-> 1, e |-> k]

times_200(p) == [m |-> 25 * p.m, e |-> p.e + 3]

Builds == {"overflow-checks", "wrapping"}

BookkeepingInit ==
    /\ now = 0
    /\ validators = GenesisCommittee
    /\ loaded = {}
    /\ \E build \in Builds :
          bookkeeping = [build |-> build, pc |-> "process_task", retry_times |-> 0,
                         delay_ms |-> [m |-> 0, e |-> 0], total_attempts |-> 0,
                         overflow |-> {}]
    /\ reconfig = <<>>
    /\ attempt = <<>>
    /\ max_retry_times \in 0..U8Max
    /\ ask = <<>>
    /\ task_queue = <<>>
    /\ running = {}
    /\ sleeping = {}
    /\ notifier = [d \in Digests |-> {}]
    /\ tickets = <<>>
    /\ effects_channel = <<>>
    /\ requests = {}
    /\ history = <<>>
    /\ aggregation = "idle"
    /\ responses = {}
    /\ accumulated_state = <<>>
    /\ returned = {}
    /\ folded = <<>>
    /\ current_timeout = PreQuorumTimeout
    /\ waited = 0
    /\ elapsed = 0
    /\ OnceIdle

bookkeeping_frame ==
    UNCHANGED <<now, validators, loaded, reconfig, attempt, max_retry_times, ask,
                task_queue, running, sleeping, notifier, tickets, effects_channel,
                requests, history, aggregation_vars>>

\* An attempt of the task fails with a retryable error and
\* enqueue_again_maybe(.., old_retry_times) runs, old_retry_times being the
\* task's retry_times.
enqueue_again_maybe_at_width ==
    LET old_retry_times == bookkeeping.retry_times
        pow == u64_pow2(old_retry_times)
        pow_fits == FitsU64(pow.m, pow.e)
        wrapped_pow == WrapU64(pow.m, pow.e)
        product == times_200(wrapped_pow)
        product_fits == FitsU64(product.m, product.e)
        sum_fits == old_retry_times + 1 <= U8Max
        checked == bookkeeping.build = "overflow-checks"
    IN  /\ bookkeeping # <<>>
        /\ bookkeeping.pc = "process_task"
        /\ bookkeeping' =
             IF old_retry_times >= max_retry_times
             THEN IF sum_fits
                  THEN [bookkeeping EXCEPT !.pc = "notified",
                                           !.total_attempts = old_retry_times + 1]
                  ELSE [bookkeeping EXCEPT
                           !.pc = IF checked THEN "panicked" ELSE "notified",
                           !.total_attempts = (old_retry_times + 1) % (U8Max + 1),
                           !.overflow = @ \cup {"old_retry_times + 1"}]
             ELSE IF ~pow_fits
             THEN [bookkeeping EXCEPT
                      !.pc = IF checked THEN "panicked" ELSE "process_task",
                      !.delay_ms = WrapU64(product.m, product.e),
                      !.retry_times = IF checked THEN @ ELSE @ + 1,
                      !.overflow = @ \cup {"u64::pow"}]
             ELSE IF ~product_fits
             THEN [bookkeeping EXCEPT
                      !.pc = IF checked THEN "panicked" ELSE "process_task",
                      !.delay_ms = WrapU64(product.m, product.e),
                      !.retry_times = IF checked THEN @ ELSE @ + 1,
                      !.overflow = @ \cup {"200 * pow"}]
             ELSE [bookkeeping EXCEPT !.delay_ms = product,
                                      !.retry_times = @ + 1]
        /\ bookkeeping_frame

BookkeepingSpec == BookkeepingInit /\ [][enqueue_again_maybe_at_width]_vars

\* C40: whatever max_retry_times the handler was built with, no operation of
\* the retry bookkeeping has left its type.
C40_BookkeepingFits ==
    bookkeeping # <<>> =>
       /\ bookkeeping.overflow = {}
       /\ bookkeeping.pc # "panicked"
       /\ bookkeeping.retry_times <= U8Max

====
